---- MODULE Spec2Model ----
(***************************************************************************)
(* Protect/restore pipeline of prettier-plugin-twig-melody.                *)
(*                                                                         *)
(* Text is a sequence of one-character strings.  Every rewrite pass of     *)
(* src/src/parser.js is an operator on such sequences, written after the   *)
(* regular expression and the callback of the pass; the restoration        *)
(* printers (printTextStatement, printAttribute, printIdentifier,          *)
(* printElement) are operators on the leaves of the parsed text.           *)
(***************************************************************************)
EXTENDS Integers, Sequences, FiniteSets, TLC

-----------------------------------------------------------------------------
(* Characters and character classes of the regular expressions.            *)

DQ == "\""
SQ == "'"
NL == "\n"
BS == "\\"

Lower == {"a","b","c","d","e","f","g","h","i","j","k","l","m",
          "n","o","p","q","r","s","t","u","v","w","x","y","z"}
Upper == {"A","B","C","D","E","F","G","H","I","J","K","L","M",
          "N","O","P","Q","R","S","T","U","V","W","X","Y","Z"}
Digit == {"0","1","2","3","4","5","6","7","8","9"}
\* [a-zA-Z]
Alpha == Lower \cup Upper
\* [a-zA-Z0-9]
AlNum == Alpha \cup Digit
\* [a-zA-Z0-9-]
NameCh == AlNum \cup {"-"}
\* [a-zA-Z0-9.-]
ModCh == NameCh \cup {"."}
\* \w
WordCh == AlNum \cup {"_"}
\* [\w-]
WordDash == WordCh \cup {"-"}
\* \s
Space == {" ", "\n", "\t"}

-----------------------------------------------------------------------------
(* String primitives of JavaScript; positions are 1-based.                 *)

\* s.substring(i-1, j-1): the characters i .. j-1
Sub(s, i, j) == SubSeq(s, i, j - 1)

\* s.substring(i-1)
From(s, i) == SubSeq(s, i, Len(s))

\* s.startsWith(p, i-1)
At(s, i, p) ==
    /\ i >= 1
    /\ i + Len(p) - 1 <= Len(s)
    /\ \A k \in 1..Len(p) : s[i + k - 1] = p[k]

\* the least element of a non-empty set of positions
MinOf(S) == CHOOSE x \in S : \A y \in S : x <= y

\* the greatest element of a non-empty set of positions
MaxOf(S) == 0 - MinOf({0 - x : x \in S})

\* s.indexOf(p, i-1) + 1, 0 when absent
IndexFrom(s, p, i) ==
    LET hits == {j \in i..(Len(s) - Len(p) + 1) : At(s, j, p)}
    IN IF hits = {} THEN 0 ELSE MinOf(hits)

\* s.includes(p)
Includes(s, p) == \E j \in 1..(Len(s) - Len(p) + 1) : At(s, j, p)

\* s.substring(0, n).lastIndexOf(p) + 1 (the match must end inside the prefix)
LastIndexOf(s, n, p) ==
    LET hits == {j \in 1..(n - Len(p) + 1) : At(s, j, p)}
    IN IF hits = {} THEN 0 ELSE MaxOf(hits)

\* the first position >= i whose character is outside class C (Len(s)+1 at the end)
SkipClass(s, i, C) ==
    LET stops == {j \in i..Len(s) : s[j] \notin C}
    IN IF stops = {} THEN Len(s) + 1 ELSE MinOf(stops)

\* the first position >= i whose character is in class C (Len(s)+1 at the end)
SkipNotIn(s, i, C) ==
    LET stops == {j \in i..Len(s) : s[j] \in C}
    IN IF stops = {} THEN Len(s) + 1 ELSE MinOf(stops)

\* the last position <= i whose character is outside class C (0 at the start)
SkipBack(s, i, C) ==
    LET stops == {j \in 1..i : s[j] \notin C}
    IN IF stops = {} THEN 0 ELSE MaxOf(stops)

\* s.trim()
Trim(s) ==
    LET a == SkipClass(s, 1, Space)
        b == SkipBack(s, Len(s), Space)
    IN IF a > b THEN <<>> ELSE SubSeq(s, a, b)

\* a word boundary \b between positions i-1 and i
WordBoundary(s, i) ==
    LET l == i > 1 /\ i - 1 <= Len(s) /\ s[i - 1] \in WordCh
        r == i >= 1 /\ i <= Len(s) /\ s[i] \in WordCh
    IN l # r

RECURSIVE Digits(_)
\* the decimal digits of n (template literal `${n}`)
Digits(n) ==
    IF n < 10 THEN <<CHOOSE d \in Digit : d = ToString(n)>>
    ELSE Digits(n \div 10) \o <<CHOOSE d \in Digit : d = ToString(n % 10)>>

-----------------------------------------------------------------------------
(* Placeholder id prefixes (the template literals of parser.js).           *)

\* `mixed-attr-`
K_MIXED_ATTR ==
    <<"m","i","x","e","d","-","a","t","t","r","-">>
\* `data-alpine-mixed-`
K_ALPINE_MIXED ==
    <<"d","a","t","a","-","a","l","p","i","n","e","-","m","i","x","e","d","-">>
\* `alpine-attr-`
K_ALPINE_ATTR ==
    <<"a","l","p","i","n","e","-","a","t","t","r","-">>
\* `data-alpine-pure-`
K_ALPINE_PURE ==
    <<"d","a","t","a","-","a","l","p","i","n","e","-","p","u","r","e","-">>
\* `v-pre-content-`
K_VPRE ==
    <<"v","-","p","r","e","-","c","o","n","t","e","n","t","-">>
\* `__HTML_ENTITY_`
K_ENTITY ==
    <<"_","_","H","T","M","L","_","E","N","T","I","T","Y","_">>
\* `script-content-`
K_SCRIPT ==
    <<"s","c","r","i","p","t","-","c","o","n","t","e","n","t","-">>
\* `style-content-`
K_STYLE ==
    <<"s","t","y","l","e","-","c","o","n","t","e","n","t","-">>
\* `data-twig-comment-`
K_TWIG_COMMENT ==
    <<"d","a","t","a","-","t","w","i","g","-","c","o","m","m","e","n","t","-">>
\* `data-twig-conditional-`
K_TWIG_COND ==
    <<"d","a","t","a","-","t","w","i","g","-","c","o","n","d","i","t","i","o","n","a","l","-">>
\* `twig-attr-value-`
K_TWIG_ATTR ==
    <<"t","w","i","g","-","a","t","t","r","-","v","a","l","u","e","-">>
\* `data-vue-alpine-`
K_VUE_ALPINE ==
    <<"d","a","t","a","-","v","u","e","-","a","l","p","i","n","e","-">>
\* `vue-alpine-value-`
K_VUE_VALUE ==
    <<"v","u","e","-","a","l","p","i","n","e","-","v","a","l","u","e","-">>
\* `vue-expression-`
K_VUE_EXPR ==
    <<"v","u","e","-","e","x","p","r","e","s","s","i","o","n","-">>
\* `__TWIG_ARROW_FUNC_`
K_ARROW ==
    <<"_","_","T","W","I","G","_","A","R","R","O","W","_","F","U","N","C","_">>
\* `__TWIG_EXPR_`
K_TWIG_EXPR ==
    <<"_","_","T","W","I","G","_","E","X","P","R","_">>

US2 == <<"_","_">>

-----------------------------------------------------------------------------
(* The ledger: a JavaScript Map from placeholder id to payload, kept in    *)
(* insertion order.  A payload is a string (type "string") or one of the   *)
(* objects the passes store; the unused fields of a payload are empty.     *)

Payload(type, text, attrName, processedValue, twigExpressions, quote) ==
    [type |-> type, text |-> text, attrName |-> attrName,
     processedValue |-> processedValue, twigExpressions |-> twigExpressions,
     quote |-> quote]

\* a plain string payload
StrVal(text) == Payload("string", text, <<>>, <<>>, <<>>, "")

\* Map.prototype.has
LedHas(led, k) == \E n \in 1..Len(led) : led[n].key = k

\* Map.prototype.get (called only when the key is present)
LedGet(led, k) == led[CHOOSE n \in 1..Len(led) : led[n].key = k].val

\* Map.prototype.set: overwrite in place, or append
LedSet(led, k, v) ==
    IF LedHas(led, k)
    THEN [n \in 1..Len(led) |-> IF led[n].key = k THEN [key |-> k, val |-> v] ELSE led[n]]
    ELSE Append(led, [key |-> k, val |-> v])

\* The state threaded through the callbacks of one pass: the text produced
\* so far (out), the shared counter, the ledger, the ids generated so far
\* and the record of the sub-formatter calls (emb, see EmbeddedCallback).
PassState(text, ctr, led, ids, emb) ==
    [out |-> text, ctr |-> ctr, led |-> led, ids |-> ids, emb |-> emb]

\* the callback returns `piece`; nothing else changes
Emit(st, piece) == [st EXCEPT !.out = @ \o piece]

\* replacements.set(id, v) for a freshly generated id
Store(st, id, v) ==
    [st EXCEPT !.led = LedSet(@, id, v), !.ids = Append(@, id)]

RECURSIVE ReplaceAll(_, _, _, _, _)
\* String.prototype.replace(/.../g, callback) from position ri on: Match(s, i)
\* is the position after the match that starts at i (0: no match at i),
\* Callback(s, i, e, st) is the pass state after the callback ran on the
\* match s[i .. e-1].  The scan resumes after each match.
ReplaceAll(Match(_, _), Callback(_, _, _, _), rs, ri, rst) ==
    LET starts == {j \in ri..Len(rs) : Match(rs, j) # 0}
    IN IF starts = {} THEN Emit(rst, From(rs, ri))
       ELSE LET rj == MinOf(starts)
                after == Callback(rs, rj, Match(rs, rj), Emit(rst, Sub(rs, ri, rj)))
            IN IF after.ctr >= 0
               THEN ReplaceAll(Match, Callback, rs, Match(rs, rj), after)
               ELSE after

-----------------------------------------------------------------------------
(* preprocessAlpineJSAttributes (parser.js 254-344).                       *)

\* [a-zA-Z][a-zA-Z0-9-]* at i: the position after it, 0 when it does not match
NameEnd(s, i) ==
    IF i >= 1 /\ i <= Len(s) /\ s[i] \in Alpha THEN SkipClass(s, i + 1, NameCh) ELSE 0

\* (?:\.[a-zA-Z][a-zA-Z0-9.-]*)* at i (greedy; the class contains the dot, so
\* one round takes every further modifier): the position after it
ModsEnd(s, i) ==
    IF At(s, i, <<".">>) /\ i + 1 <= Len(s) /\ s[i + 1] \in Alpha
    THEN SkipClass(s, i + 2, ModCh)
    ELSE i

\* the list alpineAttributes of preprocessAlpineJSAttributes
alpineAttributes ==
    << <<"x","-","d","a","t","a">>,
       <<"x","-","s","h","o","w">>,
       <<"x","-","i","f">>,
       <<"x","-","f","o","r">>,
       <<"x","-","m","o","d","e","l">>,
       <<"x","-","t","e","x","t">>,
       <<"x","-","h","t","m","l">>,
       <<"x","-","b","i","n","d">>,
       <<"x","-","o","n">>,
       <<"x","-","t","r","a","n","s","i","t","i","o","n">>,
       <<"x","-","e","f","f","e","c","t">>,
       <<"x","-","i","n","i","t">> >>

\* "x-bind:", "xmlns"
S_XBIND == <<"x","-","b","i","n","d",":">>
S_XMLNS == <<"x","m","l","n","s">>

\* the number of entries of alpineAttributePatterns: three literal patterns
\* and one per entry of alpineAttributes
NumAlpinePatterns == 3 + Len(alpineAttributes)

\* the capture group 1 (the attribute name) of pattern k at i: the position
\* after it, 0 when the name part does not match at i
AlpineNameEnd(k, s, i) ==
    CASE k = 1 -> IF At(s, i, S_XBIND) THEN NameEnd(s, i + Len(S_XBIND)) ELSE 0
      [] k = 2 -> IF At(s, i, <<"@">>)
                  THEN LET n == NameEnd(s, i + 1) IN IF n = 0 THEN 0 ELSE ModsEnd(s, n)
                  ELSE 0
      [] k = 3 -> IF At(s, i, <<":">>) /\ ~At(s, i + 1, S_XMLNS)
                  THEN NameEnd(s, i + 1)
                  ELSE 0
      [] OTHER -> IF At(s, i, alpineAttributes[k - 3])
                  THEN ModsEnd(s, i + Len(alpineAttributes[k - 3]))
                  ELSE 0

\* pattern k, (name)="([^"]*)", at i: the position after the match, or 0
AlpineMatch(k, s, i) ==
    LET n == AlpineNameEnd(k, s, i)
    IN IF n = 0 \/ ~At(s, n, <<"=", DQ>>) THEN 0
       ELSE LET c == IndexFrom(s, <<DQ>>, n + 2)
            IN IF c = 0 THEN 0 ELSE c + 1

\* /\{\{([^}]+)\}\}/ at i: the position after the match, or 0
TwigExprMatch(s, i) ==
    IF ~At(s, i, <<"{", "{">>) THEN 0
    ELSE LET c == SkipNotIn(s, i + 2, {"}"})
         IN IF c > i + 2 /\ At(s, c, <<"}", "}">>) THEN c + 2 ELSE 0

RECURSIVE ExtractTwig(_, _, _)
\* attrValue.replace(/\{\{([^}]+)\}\}/g, ...): acc.pv is processedValue
\* so far and acc.ex the list twigExpressions
ExtractTwig(v, i, acc) ==
    IF i > Len(v) THEN acc
    ELSE LET e == TwigExprMatch(v, i)
         IN IF e = 0
            THEN ExtractTwig(v, i + 1, [acc EXCEPT !.pv = Append(@, v[i])])
            ELSE ExtractTwig(v, e,
                     [pv |-> acc.pv \o K_TWIG_EXPR \o Digits(Len(acc.ex)) \o US2,
                      ex |-> Append(acc.ex, Trim(Sub(v, i + 2, e - 2)))])

\* the replace callback of one alpine pattern (parser.js 299-339)
AlpineCallback(k, s, i, e, st) ==
    LET n == AlpineNameEnd(k, s, i)
        attrName == Sub(s, i, n)
        attrValue == Sub(s, n + 2, e - 1)
        valueId == Digits(st.ctr)
        nameId == Digits(st.ctr + 1)
    IN IF Includes(attrValue, <<"{", "{">>) /\ Includes(attrValue, <<"}", "}">>)
       THEN LET x == ExtractTwig(attrValue, 1, [pv |-> <<>>, ex |-> <<>>])
                mixedAttrId == K_MIXED_ATTR \o valueId
                attrNameId == K_ALPINE_MIXED \o nameId
                s1 == Store(st, mixedAttrId,
                            Payload("MixedAttribute", attrValue, attrName, x.pv, x.ex, ""))
                s2 == Store(s1, attrNameId, StrVal(attrName))
            IN [Emit(s2, attrNameId \o <<"=", DQ>> \o mixedAttrId \o <<DQ>>)
                  EXCEPT !.ctr = st.ctr + 2]
       ELSE LET alpineAttrId == K_ALPINE_ATTR \o valueId
                attrNameId == K_ALPINE_PURE \o nameId
                s1 == Store(st, alpineAttrId,
                            Payload("AlpineAttribute", attrValue, attrName, <<>>, <<>>, ""))
                s2 == Store(s1, attrNameId, StrVal(attrName))
            IN [Emit(s2, attrNameId \o <<"=", DQ>> \o alpineAttrId \o <<DQ>>)
                  EXCEPT !.ctr = st.ctr + 2]

\* the pass state with which the next replace call starts on the text `out`
Restart(st) == [st EXCEPT !.out = <<>>]

\* processedText.replace(pattern k, callback); st.out is processedText
AlpinePattern(k, st) ==
    ReplaceAll(LAMBDA s, i : AlpineMatch(k, s, i),
               LAMBDA s, i, e, t : AlpineCallback(k, s, i, e, t),
               st.out, 1, Restart(st))

RECURSIVE AlpinePatternsFrom(_, _)
\* alpineAttributePatterns.forEach from pattern k on
AlpinePatternsFrom(k, st) ==
    IF k > NumAlpinePatterns THEN st
    ELSE LET next == AlpinePattern(k, st)
         IN IF next.ctr >= st.ctr THEN AlpinePatternsFrom(k + 1, next) ELSE next

preprocessAlpineJSAttributes(st) == AlpinePatternsFrom(1, st)

-----------------------------------------------------------------------------
(* Case folding for the regular expressions that carry the i flag.         *)

LowerSeq == <<"a","b","c","d","e","f","g","h","i","j","k","l","m",
              "n","o","p","q","r","s","t","u","v","w","x","y","z">>
UpperSeq == <<"A","B","C","D","E","F","G","H","I","J","K","L","M",
              "N","O","P","Q","R","S","T","U","V","W","X","Y","Z">>

\* one character of String.prototype.toLowerCase
LowerCh(c) ==
    IF c \in Upper THEN LowerSeq[CHOOSE k \in 1..26 : UpperSeq[k] = c] ELSE c

\* s.toLowerCase()
ToLower(s) == [k \in 1..Len(s) |-> LowerCh(s[k])]

\* p matches s at i, ignoring case
AtCI(s, i, p) ==
    /\ i >= 1
    /\ i + Len(p) - 1 <= Len(s)
    /\ \A k \in 1..Len(p) : LowerCh(s[i + k - 1]) = LowerCh(p[k])

-----------------------------------------------------------------------------
(* Second pass: v-pre elements (parser.js 359-383).                        *)

S_VPRE == <<"v","-","p","r","e">>

\* \bv-pre\b occurs in s[a .. b-1]
HasVPre(s, a, b) ==
    \E p \in a..(b - Len(S_VPRE)) :
        /\ AtCI(s, p, S_VPRE)
        /\ WordBoundary(s, p)
        /\ WordBoundary(s, p + Len(S_VPRE))

\* <\/\1\s*> at c for the element name nm: the position after it, or 0
CloseTagEnd(s, c, nm) ==
    IF AtCI(s, c, <<"<", "/">> \o nm)
    THEN LET g == SkipClass(s, c + 2 + Len(nm), Space)
         IN IF g <= Len(s) /\ s[g] = ">" THEN g + 1 ELSE 0
    ELSE 0

\* vPreRegex with the element name s[i+1 .. n-1]: n is the position after
\* the name, g the position of the > of the opening tag, c the position of
\* the closing tag and e the position after the match (ok: it matches)
VPreWithName(s, i, n) ==
    LET g == SkipNotIn(s, n, {">"})
        nm == Sub(s, i + 1, n)
        closes == {c \in (g + 1)..Len(s) : CloseTagEnd(s, c, nm) # 0}
    IN IF g > Len(s) \/ ~HasVPre(s, n, g) \/ closes = {}
       THEN [ok |-> FALSE, n |-> n, g |-> 0, c |-> 0, e |-> 0]
       ELSE [ok |-> TRUE, n |-> n, g |-> g, c |-> MinOf(closes),
             e |-> CloseTagEnd(s, MinOf(closes), nm)]

\* vPreRegex at i: the greedy name is shortened until the rest matches
VPreParts(s, i) ==
    LET m == NameEnd(s, i + 1)
        fits == IF At(s, i, <<"<">>) /\ m # 0
                THEN {n \in (i + 2)..m : VPreWithName(s, i, n).ok}
                ELSE {}
    IN IF fits = {} THEN [ok |-> FALSE, n |-> 0, g |-> 0, c |-> 0, e |-> 0]
       ELSE VPreWithName(s, i, MaxOf(fits))

VPreMatch(s, i) == VPreParts(s, i).e

\* the replace callback of the v-pre pass (parser.js 374-382)
VPreCallback(s, i, e, st) ==
    LET m == VPreParts(s, i)
        elementName == Sub(s, i + 1, m.n)
        attributes == Sub(s, m.n, m.g)
        content == Sub(s, m.g + 1, m.c)
        vPreContentId == K_VPRE \o Digits(st.ctr)
    IN [Emit(Store(st, vPreContentId, StrVal(content)),
             <<"<">> \o elementName \o attributes \o <<">">> \o vPreContentId
                 \o <<"<", "/">> \o elementName \o <<">">>)
          EXCEPT !.ctr = st.ctr + 1]

VPrePass(st) ==
    ReplaceAll(VPreMatch, VPreCallback, st.out, 1, Restart(st))

-----------------------------------------------------------------------------
(* Third pass: preprocessUnicodeCharacters (parser.js 86-112) and the      *)
(* merge of its map into replacements (parser.js 385-393).                 *)

\* /&#\d+;/ at i: the position after the match, or 0
NumericEntityMatch(s, i) ==
    IF At(s, i, <<"&", "#">>)
    THEN LET d == SkipClass(s, i + 2, Digit)
         IN IF d > i + 2 /\ d <= Len(s) /\ s[d] = ";" THEN d + 1 ELSE 0
    ELSE 0

\* /&[a-zA-Z][a-zA-Z0-9]*;/ at i: the position after the match, or 0
NamedEntityMatch(s, i) ==
    IF At(s, i, <<"&">>) /\ i + 1 <= Len(s) /\ s[i + 1] \in Alpha
    THEN LET d == SkipClass(s, i + 2, AlNum)
         IN IF d <= Len(s) /\ s[d] = ";" THEN d + 1 ELSE 0
    ELSE 0

\* the entity callback with entityCounter left out of the placeholder
EntityCallback_uncounted(s, i, e, st) ==
    LET placeholder == K_ENTITY \o Digits(0) \o US2
    IN [Emit(Store(st, placeholder, StrVal(Sub(s, i, e))), placeholder)
          EXCEPT !.ctr = st.ctr + 1]

\* both replace callbacks: `__HTML_ENTITY_${entityCounter++}__`
EntityCallback(s, i, e, st) ==
    LET placeholder == K_ENTITY \o Digits(st.ctr) \o US2
    IN [Emit(Store(st, placeholder, StrVal(Sub(s, i, e))), placeholder)
          EXCEPT !.ctr = st.ctr + 1]

\* st.out is text; the result carries entityCounter and entityReplacements
preprocessUnicodeCharacters(st) ==
    LET numeric == ReplaceAll(NumericEntityMatch, EntityCallback, st.out, 1, Restart(st))
    IN ReplaceAll(NamedEntityMatch, EntityCallback, numeric.out, 1, Restart(numeric))

\* a merge that puts the other map in the place of the map
LedMerge_replacing(led, other, n) == other

RECURSIVE LedMerge(_, _, _)
\* for (const [k, v] of other) led.set(k, v), from entry n of other on
LedMerge(led, other, n) ==
    IF n > Len(other) THEN led
    ELSE LedMerge(LedSet(led, other[n].key, other[n].val), other, n + 1)

\* the third pass: entities get their own counter and their own map, which
\* is then merged into replacements; replacementCounter is not touched
EntityPass(st) ==
    LET ent == preprocessUnicodeCharacters(PassState(st.out, 0, <<>>, st.ids, st.emb))
    IN PassState(ent.out, st.ctr, LedMerge(st.led, ent.led, 1), ent.ids, ent.emb)

-----------------------------------------------------------------------------
(* Fourth pass: script and style content (parser.js 395-458).              *)

S_SCRIPT == <<"s","c","r","i","p","t">>
S_STYLE == <<"s","t","y","l","e">>
S_TYPE == <<"t","y","p","e">>
S_CONTENT == <<"-","c","o","n","t","e","n","t","-">>
S_TEXT_JS == <<"t","e","x","t","/","j","a","v","a","s","c","r","i","p","t">>
S_APP_JS == <<"a","p","p","l","i","c","a","t","i","o","n","/","j","a","v","a","s","c","r","i","p","t">>
S_MODULE == <<"m","o","d","u","l","e">>

\* the behaviours of a sub-formatter (formatJavaScriptWithTwig and
\* formatCSSWithTwig of util/scriptFormatting): it returns its input, it
\* returns it with every whitespace run collapsed to one space, or it throws
Formatters == {"identity", "collapse", "throws"}

\* s with every run of whitespace replaced by one space
Collapse(s) ==
    LET keep == {k \in 1..Len(s) : s[k] \notin Space \/ k = 1 \/ s[k - 1] \notin Space}
        Nth(n) == CHOOSE k \in keep : Cardinality({j \in keep : j < k}) = n - 1
    IN [n \in 1..Cardinality(keep) |-> IF s[Nth(n)] \in Space THEN " " ELSE s[Nth(n)]]

\* the value a sub-formatter that does not throw returns for content
Format(fmt, content) == IF fmt = "collapse" THEN Collapse(content) ELSE content

\* (script|style) at i, ignoring case: the tag name matched, <<>> if none
EmbeddedTag(s, i) ==
    IF AtCI(s, i, S_SCRIPT) THEN S_SCRIPT
    ELSE IF AtCI(s, i, S_STYLE) THEN S_STYLE
    ELSE <<>>

\* /<(script|style)\b([^>]*)>([\s\S]*?)<\/\1>/gi at i: n is the position
\* after the tag name, g the position of the > of the opening tag, c the
\* position of the closing tag and e the position after the match
EmbeddedParts(s, i) ==
    LET tag == EmbeddedTag(s, i + 1)
        n == i + 1 + Len(tag)
        g == SkipNotIn(s, n, {">"})
        closes == {c \in (g + 1)..Len(s) : AtCI(s, c, <<"<", "/">> \o tag \o <<">">>)}
    IN IF ~At(s, i, <<"<">>) \/ tag = <<>> \/ ~WordBoundary(s, n)
          \/ g > Len(s) \/ closes = {}
       THEN [ok |-> FALSE, n |-> 0, g |-> 0, c |-> 0, e |-> 0]
       ELSE [ok |-> TRUE, n |-> n, g |-> g, c |-> MinOf(closes),
             e |-> MinOf(closes) + Len(tag) + 3]

EmbeddedMatch(s, i) == EmbeddedParts(s, i).e

\* /type\s*=\s*["']([^"']+)["']/i at p in the attributes a: the positions
\* of the first and after the last character of capture group 1
TypeAttrAt(a, p) ==
    LET e1 == SkipClass(a, p + Len(S_TYPE), Space)
        e2 == SkipClass(a, e1 + 1, Space)
        e3 == SkipNotIn(a, e2 + 1, {DQ, SQ})
    IN IF /\ AtCI(a, p, S_TYPE)
          /\ e1 <= Len(a) /\ a[e1] = "="
          /\ e2 <= Len(a) /\ a[e2] \in {DQ, SQ}
          /\ e3 > e2 + 1 /\ e3 <= Len(a)
       THEN [ok |-> TRUE, from |-> e2 + 1, to |-> e3]
       ELSE [ok |-> FALSE, from |-> 0, to |-> 0]

\* attributes.match(/type\s*=\s*["']([^"']+)["']/i): found, and the
\* lower-cased capture group
TypeAttr(a) ==
    LET hits == {p \in 1..Len(a) : TypeAttrAt(a, p).ok}
    IN IF hits = {} THEN [found |-> FALSE, scriptType |-> S_TEXT_JS]
       ELSE LET m == TypeAttrAt(a, MinOf(hits))
            IN [found |-> TRUE, scriptType |-> ToLower(Sub(a, m.from, m.to))]

\* the condition of parser.js 425-430 on typeAttr and scriptType
IsJavaScriptType(t) ==
    \/ t.scriptType = S_TEXT_JS
    \/ t.scriptType = S_APP_JS
    \/ t.scriptType = S_MODULE
    \/ ~t.found

\* the script is JavaScript (parser.js 418-430)
IsJavaScript(a) == IsJavaScriptType(TypeAttr(a))

\* the sub-formatter is called for the element with this tag name, these
\* attributes and this content (parser.js 408-446)
FormatterCalled(tagName, attributes, content) ==
    /\ Trim(content) # <<>>
    /\ \/ ToLower(tagName) = S_STYLE
       \/ ToLower(tagName) = S_SCRIPT /\ IsJavaScript(attributes)

\* the callback of the fourth pass keeping the trimmed content, not the
\* content, when the sub-formatter throws
FormattedContent_trimmed(fmt, called, content) ==
    IF called
    THEN (IF fmt = "throws" THEN Trim(content) ELSE Format(fmt, Trim(content)))
    ELSE content

\* formattedContent (parser.js 413-453): the content, or what the
\* sub-formatter makes of the trimmed content when it is called and does
\* not throw
FormattedContent(fmt, called, content) ==
    IF called /\ fmt # "throws" THEN Format(fmt, Trim(content)) ELSE content

\* replacements.set(placeholderId, formattedContent) and the text returned
\* (parser.js 455-456); the call is recorded in emb
EmbeddedStore(fmt, tagName, attributes, content, called, st) ==
    [Emit(Store(st, ToLower(tagName) \o S_CONTENT \o Digits(st.ctr),
                StrVal(FormattedContent(fmt, called, content))),
          <<"<">> \o tagName \o attributes \o <<">">>
              \o ToLower(tagName) \o S_CONTENT \o Digits(st.ctr)
              \o <<"<", "/">> \o tagName \o <<">">>)
       EXCEPT !.ctr = st.ctr + 1,
              !.emb = Append(@, [id |-> ToLower(tagName) \o S_CONTENT \o Digits(st.ctr),
                                 content |-> content,
                                 called |-> called,
                                 threw |-> called /\ fmt = "throws"])]

\* the callback on the capture groups tagName, attributes and content
EmbeddedGroups(fmt, tagName, attributes, content, st) ==
    EmbeddedStore(fmt, tagName, attributes, content,
                  FormatterCalled(tagName, attributes, content), st)

\* the callback on the match m that starts at i
EmbeddedOn(fmt, s, i, m, st) ==
    EmbeddedGroups(fmt, Sub(s, i + 1, m.n), Sub(s, m.n, m.g), Sub(s, m.g + 1, m.c), st)

\* the replace callback of the fourth pass (parser.js 404-457) for a run
\* whose sub-formatters behave as fmt
EmbeddedCallback(fmt, s, i, e, st) == EmbeddedOn(fmt, s, i, EmbeddedParts(s, i), st)

EmbeddedPass(fmt, st) ==
    ReplaceAll(EmbeddedMatch, LAMBDA s, i, e, t : EmbeddedCallback(fmt, s, i, e, t),
               st.out, 1, Restart(st))

-----------------------------------------------------------------------------
(* Fifth pass: Twig blocks and attribute values inside one element tag     *)
(* (parser.js 459-667).                                                    *)

S_COMMENT_OPEN == <<"{","#">>
S_COMMENT_CLOSE == <<"#","}">>
S_BLOCK_OPEN == <<"{","%">>
S_IF == <<"{","%"," ","i","f"," ">>
S_ENDIF == <<"{","%"," ","e","n","d","i","f"," ","%","}">>
S_ONE == <<"=", DQ, "1", DQ>>
S_DATA == <<"d","a","t","a","-">>

\* the end (position after) of the comment block that starts at pos:
\* the first #} at or after pos + 2 (parser.js 509-518), 0 if there is none
CommentBlockEnd(c, pos) ==
    LET k == IndexFrom(c, S_COMMENT_CLOSE, pos + 2)
    IN IF k = 0 THEN 0 ELSE k + 2

RECURSIVE EndifSearch(_, _, _)
\* the while loop of parser.js 574-595 from searchPos with ifCount open
\* blocks: the position after the balancing {% endif %}, 0 if there is none
EndifSearch(c, searchPos, ifCount) ==
    LET marks == {k \in searchPos..Len(c) : At(c, k, S_IF) \/ At(c, k, S_ENDIF)}
    IN IF marks = {} THEN 0
       ELSE LET k == MinOf(marks)
            IN IF At(c, k, S_IF) THEN EndifSearch(c, k + Len(S_IF), ifCount + 1)
               ELSE IF ifCount = 1 THEN k + Len(S_ENDIF)
               ELSE EndifSearch(c, k + Len(S_ENDIF), ifCount - 1)

\* a search that takes the end of the tag for the missing {% endif %}
IfBlockEnd_open(c, pos) ==
    IF EndifSearch(c, pos + Len(S_IF), 1) = 0 THEN Len(c) + 1
    ELSE EndifSearch(c, pos + Len(S_IF), 1)

\* a search that stops at the first {% endif %}
IfBlockEnd_first(c, pos) ==
    IF IndexFrom(c, S_ENDIF, pos + Len(S_IF)) = 0 THEN 0
    ELSE IndexFrom(c, S_ENDIF, pos + Len(S_IF)) + Len(S_ENDIF)

\* the end of the {% if %} block that starts at pos, 0 if it is not closed
IfBlockEnd(c, pos) == EndifSearch(c, pos + Len(S_IF), 1)

RECURSIVE ScanBlocks(_, _, _, _, _, _)
\* The two scanning loops (parser.js 492-533 and 553-610): walk c from pos,
\* toggling the quote state on every quote character, and collect the blocks
\* that open with `open` outside quotes and are closed (BlockEnd # 0).  The
\* walk goes from one quote character or block opening to the next.
ScanBlocks(c, open, BlockEnd(_, _), pos, quoteChar, blocks) ==
    IF quoteChar # ""
    THEN LET k == IndexFrom(c, <<quoteChar>>, pos)
         IN IF k = 0 THEN blocks
            ELSE ScanBlocks(c, open, BlockEnd, k + 1, "", blocks)
    ELSE LET events == {k \in pos..Len(c) : c[k] \in {DQ, SQ} \/ At(c, k, open)}
         IN IF events = {} THEN blocks
            ELSE LET k == MinOf(events)
                 IN IF c[k] \in {DQ, SQ}
                    THEN ScanBlocks(c, open, BlockEnd, k + 1, c[k], blocks)
                    ELSE IF BlockEnd(c, k) # 0
                    THEN ScanBlocks(c, open, BlockEnd, BlockEnd(c, k), "",
                                    Append(blocks, [start |-> k, end |-> BlockEnd(c, k)]))
                    ELSE ScanBlocks(c, open, BlockEnd, k + 1, "", blocks)

RECURSIVE ReplaceBlocks(_, _, _, _)
\* blocks.reverse().forEach(...): replace the blocks of c from the last one
\* (number n) to the first by `${kind}${counter++}="1"`; st.out is c
ReplaceBlocks(kind, blocks, n, st) ==
    IF n = 0 THEN st
    ELSE LET b == blocks[n]
             placeholderId == kind \o Digits(st.ctr)
             stored == Store(st, placeholderId, StrVal(Sub(st.out, b.start, b.end)))
             next == [stored EXCEPT
                        !.out = Sub(st.out, 1, b.start) \o placeholderId \o S_ONE
                                    \o From(st.out, b.end),
                        !.ctr = st.ctr + 1]
         IN IF next.ctr > 0 THEN ReplaceBlocks(kind, blocks, n - 1, next) ELSE next

\* [;:|&=><(){}[\]]
SpecialCh == {";", ":", "|", "&", "=", ">", "<", "(", ")", "{", "}", "[", "]"}

\* the name part of the attribute-value pattern of parser.js 626,
\* (\w+(?::[^=\s]*|@[^=\s]*)?|style|x-[^=\s]*|v-[^=\s]*), at i: the position
\* after it, 0 when no alternative is followed by ="
TagAttrNameEnd(s, i) ==
    LET w == SkipClass(s, i, WordCh)
        n1 == IF w > i /\ w <= Len(s) /\ s[w] \in {":", "@"}
              THEN SkipNotIn(s, w + 1, {"="} \cup Space)
              ELSE w
        n3 == SkipNotIn(s, i + 2, {"="} \cup Space)
    IN IF w > i /\ At(s, n1, <<"=", DQ>>) THEN n1
       ELSE IF At(s, i, S_STYLE) /\ At(s, i + Len(S_STYLE), <<"=", DQ>>)
       THEN i + Len(S_STYLE)
       ELSE IF (At(s, i, <<"x", "-">>) \/ At(s, i, <<"v", "-">>)) /\ At(s, n3, <<"=", DQ>>)
       THEN n3
       ELSE 0

\* the value part of the pattern, from the first character q of the value:
\* the position of the closing quote, 0 when the value does not match.
\* [^"]* runs to the first quote f and gives characters back until one of
\* the alternatives matches: that is at the last special character P of
\* the value; only when a {% or {# opens there can the lazy alternative
\* carry the value over quotes to the first quote after its %} or #}.
TagAttrValueEnd(s, q) ==
    LET f == IndexFrom(s, <<DQ>>, q)
        specials == {p \in q..(f - 1) : s[p] \in SpecialCh}
        P == MaxOf(specials)
        closer == IF At(s, P, S_BLOCK_OPEN) THEN <<"%", "}">>
                  ELSE IF At(s, P, S_COMMENT_OPEN) THEN S_COMMENT_CLOSE
                  ELSE <<>>
        k == IF closer = <<>> THEN 0 ELSE IndexFrom(s, closer, P + 2)
        t == IF k = 0 THEN 0 ELSE IndexFrom(s, <<DQ>>, k + 2)
    IN IF f = 0 \/ specials = {} THEN 0
       ELSE IF t # 0 THEN t
       ELSE f

\* the attribute-value pattern at i: the position after the match, or 0
TagAttrMatch(s, i) ==
    LET n == TagAttrNameEnd(s, i)
    IN IF n = 0 THEN 0
       ELSE LET t == TagAttrValueEnd(s, n + 2)
            IN IF t = 0 THEN 0 ELSE t + 1

\* the list alpineAttributes of isAlpineAttribute (parser.js 173-185)
isAlpineAttributeList ==
    << <<"x","-","d","a","t","a">>,
       <<"x","-","s","h","o","w">>,
       <<"x","-","i","f">>,
       <<"x","-","f","o","r">>,
       <<"x","-","o","n">>,
       <<"x","-","b","i","n","d">>,
       <<"x","-","m","o","d","e","l">>,
       <<"x","-","t","e","x","t">>,
       <<"x","-","h","t","m","l">>,
       <<"x","-","t","r","a","n","s","i","t","i","o","n">>,
       <<"x","-","c","l","o","a","k">> >>

\* isAlpineAttribute (parser.js 172-190)
isAlpineAttribute(attrName) ==
    \E k \in 1..Len(isAlpineAttributeList) :
        At(attrName, 1, isAlpineAttributeList[k]) \/ At(attrName, 1, <<"@">>)

\* parseStyleAttribute(attrValue).value (parser.js 149-170)
parseStyleAttribute(attrValue) == Trim(attrValue)

\* parseComplexAttributeValue(attrName, attrValue).value (parser.js 114-147)
parseComplexAttributeValue(attrName, attrValue) == Trim(attrValue)

\* the locals of parseComplexAttributeValue before the loop (parser.js 115-119)
ScannerStart == [depth |-> 0, inSingleQuote |-> FALSE, inDoubleQuote |-> FALSE]

\* inSingleQuote after the character char (parser.js 125-127)
SingleQuoteAfter(char, st) ==
    IF char = SQ /\ ~st.inDoubleQuote THEN ~st.inSingleQuote ELSE st.inSingleQuote

\* inDoubleQuote after char, inSingleQuote being single (parser.js 128-130)
DoubleQuoteAfter(char, single, st) ==
    IF char = DQ /\ ~single THEN ~st.inDoubleQuote ELSE st.inDoubleQuote

\* depth after char with the quote state after it (parser.js 133-140)
DepthAfter(char, single, double, st) ==
    IF single \/ double THEN st.depth
    ELSE IF char = "{" THEN st.depth + 1
    ELSE IF char = "}" THEN st.depth - 1
    ELSE st.depth

\* one round of the loop (parser.js 122-144)
ScannerStep(char, st) ==
    [depth |-> DepthAfter(char, SingleQuoteAfter(char, st),
                          DoubleQuoteAfter(char, SingleQuoteAfter(char, st), st), st),
     inSingleQuote |-> SingleQuoteAfter(char, st),
     inDoubleQuote |-> DoubleQuoteAfter(char, SingleQuoteAfter(char, st), st)]

RECURSIVE ComplexScan(_, _, _)
\* the locals of parseComplexAttributeValue when the loop ends, from
\* character `position` on
ComplexScan(attrValue, position, st) ==
    IF position > Len(attrValue) THEN st
    ELSE ComplexScan(attrValue, position + 1, ScannerStep(attrValue[position], st))

\* the replace callback of the attribute-value pattern (parser.js 627-662)
TagAttrCallback(s, i, e, st) ==
    LET n == TagAttrNameEnd(s, i)
        attrName == Sub(s, i, n)
        attrValue == Sub(s, n + 2, e - 1)
        parsedValue ==
            IF attrName = S_STYLE THEN parseStyleAttribute(attrValue)
            ELSE IF isAlpineAttribute(attrName) \/ At(attrName, 1, <<"@">>)
                    \/ At(attrName, 1, <<":">>)
            THEN parseComplexAttributeValue(attrName, attrValue)
            ELSE attrValue
        placeholderId == K_TWIG_ATTR \o Digits(st.ctr)
    IN [Emit(Store(st, placeholderId, StrVal(parsedValue)),
             attrName \o <<"=", DQ>> \o placeholderId \o <<DQ>>)
          EXCEPT !.ctr = st.ctr + 1]

\* /<([^<>]*?)>/ at i: the position after the match, or 0
TagMatch(s, i) ==
    LET g == SkipNotIn(s, i + 1, {"<", ">"})
    IN IF At(s, i, <<"<">>) /\ g <= Len(s) /\ s[g] = ">" THEN g + 1 ELSE 0

\* the element is inside a Twig comment (parser.js 466-473)
InTwigCommentAt(s, offset) ==
    LastIndexOf(s, offset - 1, S_COMMENT_OPEN) > LastIndexOf(s, offset - 1, S_COMMENT_CLOSE)

\* the complete {# ... #} blocks outside quotes (parser.js 489-533)
CommentBlocks(c) == ScanBlocks(c, S_COMMENT_OPEN, CommentBlockEnd, 1, "", <<>>)

\* parser.js 489-543; st.out is processedContent
CommentStep(st) ==
    ReplaceBlocks(K_TWIG_COMMENT, CommentBlocks(st.out), Len(CommentBlocks(st.out)), st)

\* the complete {% if %}...{% endif %} blocks outside quotes (parser.js 548-610)
IfBlocks(c) == ScanBlocks(c, S_IF, IfBlockEnd, 1, "", <<>>)

\* parser.js 548-620; st.out is processedContent
ConditionalStep(st) ==
    ReplaceBlocks(K_TWIG_COND, IfBlocks(st.out), Len(IfBlocks(st.out)), st)

\* parser.js 622-663; st.out is processedContent
TagAttrStep(st) ==
    ReplaceAll(TagAttrMatch, TagAttrCallback, st.out, 1, Restart(st))

\* processedContent after the three steps on one tag; st.out is the
\* content of the tag on entry and on exit
TagContent(st) == TagAttrStep(ConditionalStep(CommentStep(st)))

\* the replace callback of the fifth pass (parser.js 464-666)
TagCallback(s, i, e, st) ==
    LET elementContent == Sub(s, i + 1, e - 1)
    IN IF InTwigCommentAt(s, i) THEN Emit(st, Sub(s, i, e))
       ELSE IF ~Includes(elementContent, S_BLOCK_OPEN)
               /\ ~Includes(elementContent, S_COMMENT_OPEN)
       THEN Emit(st, Sub(s, i, e))
       ELSE LET inner == TagContent([st EXCEPT !.out = elementContent])
            IN [inner EXCEPT !.out = st.out \o <<"<">> \o inner.out \o <<">">>]

InTagPass(st) ==
    ReplaceAll(TagMatch, TagCallback, st.out, 1, Restart(st))

-----------------------------------------------------------------------------
(* Sixth pass: directive attribute names (parser.js 669-762).              *)

S_VON == <<"v","-","o","n",":">>
S_VBIND == <<"v","-","b","i","n","d",":">>
S_XON == <<"x","-","o","n",":">>
S_HTML_OPEN == <<"<","!","-","-">>
S_HTML_CLOSE == <<"-","-",">">>

\* the directive names of pattern 2, in the order of its alternation
vueDirectives ==
    << <<"i","f">>,
       <<"e","l","s","e","-","i","f">>,
       <<"e","l","s","e">>,
       <<"f","o","r">>,
       <<"s","h","o","w">>,
       <<"m","o","d","e","l">>,
       <<"t","e","x","t">>,
       <<"h","t","m","l">>,
       <<"c","l","o","a","k">>,
       <<"o","n","c","e">>,
       <<"m","e","m","o">>,
       <<"s","l","o","t">>,
       <<"k","e","y">>,
       <<"r","e","f">>,
       <<"i","s">>,
       <<"b","i","n","d">> >>

\* the lookahead (?=\s*=|\s|>) at n
NameLookahead(s, n) ==
    /\ n >= 1
    /\ n <= Len(s)
    /\ \/ s[n] \in Space \cup {">"}
       \/ LET g == SkipClass(s, n, Space) IN g <= Len(s) /\ s[g] = "="

\* \.[a-zA-Z][a-zA-Z0-9.-]* at i, required: the position after it, or 0
DotModsEnd(s, i) ==
    IF At(s, i, <<".">>) /\ i + 1 <= Len(s) /\ s[i + 1] \in Alpha
    THEN SkipClass(s, i + 2, ModCh)
    ELSE 0

RECURSIVE PlainModsEnd(_, _)
\* (?:\.[a-zA-Z][a-zA-Z0-9-]*)* at i (greedy): the position after it
PlainModsEnd(s, i) ==
    IF At(s, i, <<".">>) /\ i + 1 <= Len(s) /\ s[i + 1] \in Alpha
    THEN PlainModsEnd(s, SkipClass(s, i + 2, NameCh))
    ELSE i

\* the positions after v-<directive><optional modifiers> at i, one for each
\* directive of the alternation that matches up to the lookahead
VueDirectiveEnds(s, i) ==
    {ModsEnd(s, i + 2 + Len(vueDirectives[d])) : d \in
        {d \in 1..Len(vueDirectives) :
            /\ At(s, i + 2, vueDirectives[d])
            /\ NameLookahead(s, ModsEnd(s, i + 2 + Len(vueDirectives[d])))}}

\* pattern `index` of the list patterns (0-based, as in the source) at i,
\* without its lookahead: the position after the match, or 0
DirectiveNameEnd(index, s, i) ==
    CASE index = 0 ->
           IF WordBoundary(s, i) /\ At(s, i, S_VON)
           THEN LET n == NameEnd(s, i + Len(S_VON)) IN IF n = 0 THEN 0 ELSE ModsEnd(s, n)
           ELSE 0
      [] index = 1 ->
           IF WordBoundary(s, i) /\ At(s, i, S_VBIND)
           THEN NameEnd(s, i + Len(S_VBIND))
           ELSE 0
      [] index = 2 ->
           IF WordBoundary(s, i) /\ At(s, i, <<"v", "-">>) /\ VueDirectiveEnds(s, i) # {}
           THEN MinOf(VueDirectiveEnds(s, i))
           ELSE 0
      [] index = 3 ->
           IF WordBoundary(s, i) /\ At(s, i, S_XON)
           THEN LET n == NameEnd(s, i + Len(S_XON)) IN IF n = 0 THEN 0 ELSE DotModsEnd(s, n)
           ELSE 0
      [] index = 4 ->
           IF WordBoundary(s, i) /\ At(s, i, <<"x", "-">>)
           THEN LET n == NameEnd(s, i + 2) IN IF n = 0 THEN 0 ELSE DotModsEnd(s, n)
           ELSE 0
      [] index = 5 ->
           IF At(s, i, <<"@">>)
           THEN LET n == NameEnd(s, i + 1) IN IF n = 0 THEN 0 ELSE PlainModsEnd(s, n)
           ELSE 0
      [] OTHER ->
           IF At(s, i, <<":">>) /\ i > 1 /\ s[i - 1] \in Space \cup {"<"}
           THEN NameEnd(s, i + 1)
           ELSE 0

\* pattern `index` at i: the position after the match, or 0
DirectiveNameMatch(index, s, i) ==
    LET n == DirectiveNameEnd(index, s, i)
    IN IF n # 0 /\ NameLookahead(s, n) THEN n ELSE 0

\* the match at offset lies inside an HTML or a Twig comment (parser.js 696-708)
InCommentAt(s, offset) ==
    \/ LastIndexOf(s, offset - 1, S_HTML_OPEN) > LastIndexOf(s, offset - 1, S_HTML_CLOSE)
    \/ LastIndexOf(s, offset - 1, S_COMMENT_OPEN) > LastIndexOf(s, offset - 1, S_COMMENT_CLOSE)

\* afterMatch.match(/^\s*=\s*"(alpine-attr-|mixed-attr-)/) for the text from e on
AlreadyAlpine(s, e) ==
    LET e1 == SkipClass(s, e, Space)
        e2 == SkipClass(s, e1 + 1, Space)
    IN /\ e1 <= Len(s) /\ s[e1] = "="
       /\ At(s, e2, <<DQ>>)
       /\ (At(s, e2 + 1, K_ALPINE_ATTR) \/ At(s, e2 + 1, K_MIXED_ATTR))

\* the prefixes of xmlNamespacePattern (parser.js 747-748)
xmlNamespaces ==
    << <<"x","m","l","n","s">>,
       <<"x","m","l">>,
       <<"x","l","i","n","k">>,
       <<"s","v","g">>,
       <<"x","s","i">>,
       <<"r","d","f">>,
       <<"r","d","f","s">>,
       <<"d","c">>,
       <<"x","s">>,
       <<"x","s","d">> >>

\* xmlNamespacePattern.test(textBeforeColon) for the colon at offset:
\* /\b(xmlns|xml|xlink|svg|xsi|rdf|rdfs|dc|xs|xsd)$/i on the ten
\* characters before the colon
IsXmlNamespace(s, offset) ==
    LET lo == IF offset - 10 > 1 THEN offset - 10 ELSE 1
        textBeforeColon == Sub(s, lo, offset)
    IN \E k \in 1..Len(xmlNamespaces) :
          LET p == Len(textBeforeColon) - Len(xmlNamespaces[k]) + 1
          IN AtCI(textBeforeColon, p, xmlNamespaces[k]) /\ WordBoundary(textBeforeColon, p)

\* the replace callback of pattern `index` (parser.js 694-760)
DirectiveNameCallback(index, s, i, e, st) ==
    IF InCommentAt(s, i) \/ AlreadyAlpine(s, e) THEN Emit(st, Sub(s, i, e))
    ELSE IF index = 6 /\ IsXmlNamespace(s, i) THEN Emit(st, Sub(s, i, e))
    ELSE LET replacementId == K_VUE_ALPINE \o Digits(st.ctr)
         IN [Emit(Store(st, replacementId, StrVal(Sub(s, i, e))), replacementId)
               EXCEPT !.ctr = st.ctr + 1]

\* processedText.replace(patterns[index], callback)
DirectivePattern(index, st) ==
    ReplaceAll(LAMBDA s, i : DirectiveNameMatch(index, s, i),
               LAMBDA s, i, e, t : DirectiveNameCallback(index, s, i, e, t),
               st.out, 1, Restart(st))

\* the number of entries of the list patterns
NumDirectivePatterns == 7

RECURSIVE DirectivePatternsFrom(_, _)
\* patterns.forEach from pattern `index` on
DirectivePatternsFrom(index, st) ==
    IF index >= NumDirectivePatterns THEN st
    ELSE LET next == DirectivePattern(index, st)
         IN IF next.ctr >= st.ctr THEN DirectivePatternsFrom(index + 1, next) ELSE next

DirectiveNamePass(st) == DirectivePatternsFrom(0, st)

-----------------------------------------------------------------------------
(* Seventh pass: directive attribute values (parser.js 764-804).           *)

\* /(data-vue-alpine-\d+)=(["'])([^]*?)\2/ at i: n is the position after
\* the name, c the position of the closing quote (ok: it matches)
DirectiveValueParts(s, i) ==
    LET d == SkipClass(s, i + Len(K_VUE_ALPINE), Digit)
        quoted == At(s, i, K_VUE_ALPINE) /\ d > i + Len(K_VUE_ALPINE)
                    /\ At(s, d, <<"=">>) /\ d + 1 <= Len(s) /\ s[d + 1] \in {DQ, SQ}
        c == IF quoted THEN IndexFrom(s, <<s[d + 1]>>, d + 2) ELSE 0
    IN [ok |-> c # 0, n |-> d, c |-> c]

DirectiveValueMatch(s, i) ==
    LET m == DirectiveValueParts(s, i) IN IF m.ok THEN m.c + 1 ELSE 0

\* /^twig-attr-value-\d+$/.test(value)
IsTwigAttrPlaceholder(value) ==
    /\ At(value, 1, K_TWIG_ATTR)
    /\ Len(value) > Len(K_TWIG_ATTR)
    /\ SkipClass(value, Len(K_TWIG_ATTR) + 1, Digit) = Len(value) + 1

\* the replace callback of the seventh pass (parser.js 769-803)
DirectiveValueCallback(s, i, e, st) ==
    LET m == DirectiveValueParts(s, i)
        attrName == Sub(s, i, m.n)
        quote == s[m.n + 1]
        value == Sub(s, m.n + 2, m.c)
        placeholderId == K_VUE_VALUE \o Digits(st.ctr)
        finalQuote == IF quote = SQ /\ Includes(value, <<DQ>>) /\ ~Includes(value, <<SQ>>)
                      THEN SQ ELSE DQ
    IN IF IsTwigAttrPlaceholder(value) THEN Emit(st, Sub(s, i, e))
       ELSE [Emit(Store(st, placeholderId,
                        Payload("object", value, <<>>, <<>>, <<>>, finalQuote)),
                  attrName \o <<"=", finalQuote>> \o placeholderId \o <<finalQuote>>)
               EXCEPT !.ctr = st.ctr + 1]

DirectiveValuePass(st) ==
    ReplaceAll(DirectiveValueMatch, DirectiveValueCallback, st.out, 1, Restart(st))

-----------------------------------------------------------------------------
(* Vue template expressions (parser.js 806-821) and                        *)
(* normalizeJavaScriptWhitespace (parser.js 13-72).                        *)

RECURSIVE NormalizeFrom(_, _, _, _, _)
\* the loop of normalizeJavaScriptWhitespace from character i on;
\* stringChar is "" outside a string literal
NormalizeFrom(x, i, result, stringChar, escaped) ==
    IF i > Len(x) THEN result
    ELSE LET char == x[i]
             nextIsText == i + 1 <= Len(x) /\ x[i + 1] \notin Space
         IN IF escaped THEN NormalizeFrom(x, i + 1, Append(result, char), stringChar, FALSE)
            ELSE IF char = BS
            THEN NormalizeFrom(x, i + 1, Append(result, char), stringChar, TRUE)
            ELSE IF stringChar = "" /\ char \in {DQ, SQ}
            THEN NormalizeFrom(x, i + 1, Append(result, char), char, FALSE)
            ELSE IF stringChar # "" /\ char = stringChar
            THEN NormalizeFrom(x, i + 1, Append(result, char), "", FALSE)
            ELSE IF stringChar # ""
            THEN NormalizeFrom(x, i + 1, Append(result, char), stringChar, FALSE)
            ELSE IF char \in Space
            THEN IF result # <<>> /\ result[Len(result)] # " " /\ nextIsText
                 THEN NormalizeFrom(x, i + 1, Append(result, " "), stringChar, FALSE)
                 ELSE NormalizeFrom(x, i + 1, result, stringChar, FALSE)
            ELSE NormalizeFrom(x, i + 1, Append(result, char), stringChar, FALSE)

RECURSIVE Unescaped(_, _)
\* x from character i on with every escape replaced by the character it
\* escapes
Unescaped(x, i) ==
    IF i > Len(x) THEN <<>>
    ELSE IF x[i] = BS /\ i < Len(x) THEN <<x[i + 1]>> \o Unescaped(x, i + 2)
    ELSE <<x[i]>> \o Unescaped(x, i + 1)

\* the normalizer that also takes the backslash out of every escape
normalizeJavaScriptWhitespace_unescaped(expression) ==
    Trim(NormalizeFrom(Unescaped(expression, 1), 1, <<>>, "", FALSE))

normalizeJavaScriptWhitespace(expression) ==
    Trim(NormalizeFrom(expression, 1, <<>>, "", FALSE))

RECURSIVE NormalizerQuote(_, _, _, _)
\* stringChar when the loop of normalizeJavaScriptWhitespace ends, from
\* character i on ("" outside a string literal)
NormalizerQuote(x, i, stringChar, escaped) ==
    IF i > Len(x) THEN stringChar
    ELSE IF escaped THEN NormalizerQuote(x, i + 1, stringChar, FALSE)
    ELSE IF x[i] = BS THEN NormalizerQuote(x, i + 1, stringChar, TRUE)
    ELSE IF stringChar = "" /\ x[i] \in {DQ, SQ} THEN NormalizerQuote(x, i + 1, x[i], FALSE)
    ELSE IF stringChar # "" /\ x[i] = stringChar THEN NormalizerQuote(x, i + 1, "", FALSE)
    ELSE NormalizerQuote(x, i + 1, stringChar, FALSE)

\* /\$\{([^}]*)\}/ at i: the position after the match, or 0
VueExpressionMatch(s, i) ==
    IF At(s, i, <<"$", "{">>)
    THEN LET c == IndexFrom(s, <<"}">>, i + 2) IN IF c = 0 THEN 0 ELSE c + 1
    ELSE 0

\* the replace callback (parser.js 811-820)
VueExpressionCallback(s, i, e, st) ==
    LET vueExpressionId == K_VUE_EXPR \o Digits(st.ctr)
        normalizedExpression == normalizeJavaScriptWhitespace(Sub(s, i + 2, e - 1))
    IN [Emit(Store(st, vueExpressionId,
                   StrVal(<<"$", "{">> \o normalizedExpression \o <<"}">>)),
             vueExpressionId)
          EXCEPT !.ctr = st.ctr + 1]

VueExpressionPass(st) ==
    ReplaceAll(VueExpressionMatch, VueExpressionCallback, st.out, 1, Restart(st))

-----------------------------------------------------------------------------
(* Eighth pass: single-quoted attributes to double quotes (parser.js       *)
(* 823-840).                                                               *)

\* /(\s+)([\w-]+)='([^']*?)'/ at i: w is the position after the
\* whitespace, n the position after the name, c the closing quote
SingleQuotedParts(s, i) ==
    LET w == SkipClass(s, i, Space)
        n == SkipClass(s, w, WordDash)
        c == IF w > i /\ n > w /\ At(s, n, <<"=", SQ>>)
             THEN IndexFrom(s, <<SQ>>, n + 2) ELSE 0
    IN [ok |-> c # 0, w |-> w, n |-> n, c |-> c]

SingleQuotedMatch(s, i) ==
    LET m == SingleQuotedParts(s, i) IN IF m.ok THEN m.c + 1 ELSE 0

\* the replace callback of the eighth pass (parser.js 828-839)
SingleQuotedCallback(s, i, e, st) ==
    LET m == SingleQuotedParts(s, i)
        attrValue == Sub(s, m.n + 2, m.c)
    IN IF Includes(attrValue, <<DQ>>) \/ Includes(attrValue, <<"{">>)
          \/ Includes(attrValue, <<"}">>)
       THEN Emit(st, Sub(s, i, e))
       ELSE Emit(st, Sub(s, i, m.n) \o <<"=", DQ>> \o attrValue \o <<DQ>>)

QuoteNormalizePass(st) ==
    ReplaceAll(SingleQuotedMatch, SingleQuotedCallback, st.out, 1, Restart(st))

-----------------------------------------------------------------------------
(* preprocessTwigArrowFunctions (parser.js 845-875).                       *)

Paren == {"(", ")"}

RECURSIVE ChainEnd(_, _)
\* [^()]*(?:\([^)]*\)[^()]*)* from i, taken as far as it goes: the
\* position of the first parenthesis it cannot pass, or Len(s) + 1
ChainEnd(s, i) ==
    LET r == SkipNotIn(s, i, Paren)
        c == IF r <= Len(s) /\ s[r] = "(" THEN IndexFrom(s, <<")">>, r + 1) ELSE 0
    IN IF c = 0 THEN r ELSE ChainEnd(s, c + 1)

RECURSIVE ChainStops(_, _)
\* the positions at which [^()]*(?:\([^)]*\)[^()]*)* from i can stop
ChainStops(s, i) ==
    LET r == SkipNotIn(s, i, Paren)
        c == IF r <= Len(s) /\ s[r] = "(" THEN IndexFrom(s, <<")">>, r + 1) ELSE 0
    IN (i..r) \cup (IF c = 0 THEN {} ELSE ChainStops(s, c + 1))

\* (\|\s*\w+\s*\() at i: the position after the prefix, or 0
ArrowPrefixEnd(s, i) ==
    IF At(s, i, <<"|">>)
    THEN LET w == SkipClass(s, i + 1, Space)
             n == SkipClass(s, w, WordCh)
             p == SkipClass(s, n, Space)
         IN IF n > w /\ At(s, p, <<"(">>) THEN p + 1 ELSE 0
    ELSE 0

\* the first regular expression at i: a is the position after the prefix,
\* q the position of the closing parenthesis (ok: it matches).  Both halves
\* of the capture walk the same chain, so the closing parenthesis is where
\* the chain from a ends, and an arrow must stand at one of its stops.
ArrowCallFrom(s, a, q) ==
    [ok |-> /\ a # 0
            /\ q <= Len(s)
            /\ s[q] = ")"
            /\ \E p \in ChainStops(s, a) : p + 2 <= q /\ At(s, p, <<"=", ">">>),
     a |-> a,
     q |-> q]

\* the chain that starts after the prefix, at a
ArrowCallAfter(s, a) == ArrowCallFrom(s, a, IF a = 0 THEN 0 ELSE ChainEnd(s, a))

ArrowCallParts(s, i) == ArrowCallAfter(s, ArrowPrefixEnd(s, i))

\* the position after the match m
ArrowCallEnd(m) == IF m.ok THEN m.q + 1 ELSE 0

ArrowCallMatch(s, i) == ArrowCallEnd(ArrowCallParts(s, i))

\* the callback on the match m that starts at i
ArrowCallOn(s, i, m, st) ==
    [Emit(Store(st, K_ARROW \o Digits(st.ctr) \o US2, StrVal(Trim(Sub(s, m.a, m.q)))),
          Sub(s, i, m.a) \o K_ARROW \o Digits(st.ctr) \o US2 \o <<")">>)
       EXCEPT !.ctr = st.ctr + 1]

\* the replace callback of the first expression (parser.js 856-860)
ArrowCallCallback(s, i, e, st) == ArrowCallOn(s, i, ArrowCallParts(s, i), st)

\* the characters [%}|,)] the body of a simple arrow function cannot hold
ArrowStop == {"%", "}", "|", ",", ")"}

\* the lookahead (?=\s*[|),}]|$) at e
ArrowLookahead(s, e) ==
    \/ e = Len(s) + 1
    \/ LET g == SkipClass(s, e, Space) IN g <= Len(s) /\ s[g] \in {"|", ")", ",", "}"}

\* the second regular expression at i: the position after the match, or 0.
\* The body is lazy: it ends at the first position, after its first
\* character, where the lookahead holds; when no body starts after the
\* whitespace that follows the arrow, the body is one of those blanks.
SimpleArrowMatch(s, i) ==
    LET n == SkipClass(s, i, WordCh)
        w == SkipClass(s, n, Space)
        g == SkipClass(s, w + 2, Space)
        limit == SkipNotIn(s, g, ArrowStop)
        ends == {e \in (g + 1)..limit : ArrowLookahead(s, e)}
    IN IF n > i /\ At(s, w, <<"=", ">">>)
       THEN IF ends # {} THEN MinOf(ends)
            ELSE IF g > w + 2 /\ ArrowLookahead(s, g) THEN g
            ELSE 0
       ELSE 0

\* the replace callback of the second expression (parser.js 867-871)
SimpleArrowCallback(s, i, e, st) ==
    LET placeholderId == K_ARROW \o Digits(st.ctr) \o US2
    IN [Emit(Store(st, placeholderId, StrVal(Trim(Sub(s, i, e)))), placeholderId)
          EXCEPT !.ctr = st.ctr + 1]

\* the first replace call (parser.js 854-862)
ArrowCallPass(st) ==
    ReplaceAll(ArrowCallMatch, ArrowCallCallback, st.out, 1, Restart(st))

\* the second replace call (parser.js 865-872)
SimpleArrowPass(st) ==
    ReplaceAll(SimpleArrowMatch, SimpleArrowCallback, st.out, 1, Restart(st))

\* st.out is text; the result carries the function's own counter and map
preprocessTwigArrowFunctions(st) == SimpleArrowPass(ArrowCallPass(st))

-----------------------------------------------------------------------------
(* Restoration: decodeHtmlEntities (part_001 22-31, part_003 19-24).       *)

\* the characters with the codes 32 .. 126, in order (the grave accent,
\* which cannot stand in a string here, written U+96)
AsciiPrintable ==
    << " ", "!", "\"", "#", "$", "%", "&", "'", "(", ")", "*", "+", ",", "-", ".", "/",
       "0", "1", "2", "3", "4", "5", "6", "7", "8", "9", ":", ";", "<", "=", ">", "?",
       "@", "A", "B", "C", "D", "E", "F", "G", "H", "I", "J", "K", "L", "M", "N", "O",
       "P", "Q", "R", "S", "T", "U", "V", "W", "X", "Y", "Z", "[", "\\", "]", "^", "_",
       "U+96", "a", "b", "c", "d", "e", "f", "g", "h", "i", "j", "k", "l", "m", "n", "o",
       "p", "q", "r", "s", "t", "u", "v", "w", "x", "y", "z", "{", "|", "}", "~" >>

\* String.fromCharCode(n); a character outside 32 .. 126 is written U+n
fromCharCode(n) ==
    IF n >= 32 /\ n <= 126 THEN AsciiPrintable[n - 31] ELSE "U+" \o ToString(n)

RECURSIVE parseInt(_)
\* parseInt(dec, 10) of a sequence of digits
parseInt(dec) ==
    IF dec = <<>> THEN 0
    ELSE 10 * parseInt(Sub(dec, 1, Len(dec)))
         + (CHOOSE v \in 0..9 : ToString(v) = dec[Len(dec)])

\* /&#(\d+);/ at i: the position after the match, or 0
NumericRefMatch(s, i) ==
    IF At(s, i, <<"&", "#">>)
    THEN LET d == SkipClass(s, i + 2, Digit)
         IN IF d > i + 2 /\ At(s, d, <<";">>) THEN d + 1 ELSE 0
    ELSE 0

RECURSIVE DecodeFrom(_, _)
\* text.replace(/&#(\d+);/g, ...) from character i on
DecodeFrom(text, i) ==
    LET starts == {j \in i..Len(text) : NumericRefMatch(text, j) # 0}
    IN IF starts = {} THEN From(text, i)
       ELSE LET j == MinOf(starts)
                e == NumericRefMatch(text, j)
            IN Sub(text, i, j) \o <<fromCharCode(parseInt(Sub(text, j + 2, e - 1)))>>
                 \o DecodeFrom(text, e)

decodeHtmlEntities(text) == DecodeFrom(text, 1)

\* String(object): what a payload that is not a string turns into
S_OBJECT == <<"[","o","b","j","e","c","t"," ","O","b","j","e","c","t","]">>

\* the payload as the string functions of the printers see it
PayloadString(v) == IF v.type = "string" THEN v.text ELSE S_OBJECT

RECURSIVE GetSubstitution(_, _, _, _, _)
\* the replacement text r of a replace call from character k on: $$ is a
\* dollar sign, $& the match, $` what stands before it and $' what stands
\* after it; there are no groups, so every other dollar sign is kept
GetSubstitution(r, k, matched, before, after) ==
    IF k > Len(r) THEN <<>>
    ELSE IF r[k] = "$" /\ k < Len(r) /\ r[k + 1] \in {"$", "&", "U+96", "'"}
    THEN (CASE r[k + 1] = "$" -> <<"$">>
            [] r[k + 1] = "&" -> matched
            [] r[k + 1] = "U+96" -> before
            [] OTHER -> after)
           \o GetSubstitution(r, k + 2, matched, before, after)
    ELSE <<r[k]>> \o GetSubstitution(r, k + 1, matched, before, after)

\* s.replace(p, r) for a string p, whose first occurrence is at j, if j > 0
ReplaceAt(s, p, r, j) ==
    IF j = 0 THEN s
    ELSE Sub(s, 1, j)
           \o GetSubstitution(r, 1, p, Sub(s, 1, j), From(s, j + Len(p)))
           \o From(s, j + Len(p))

\* s.replace(p, r) for a string p: the first occurrence only
ReplaceFirst(s, p, r) == ReplaceAt(s, p, r, IndexFrom(s, p, 1))

RECURSIVE ReplaceEvery(_, _, _, _)
\* s.replace(new RegExp(p, "g"), r) from character i on, p free of
\* metacharacters
ReplaceEvery(s, p, r, i) ==
    LET j == IndexFrom(s, p, i)
    IN IF j = 0 THEN From(s, i)
       ELSE Sub(s, i, j) \o r \o ReplaceEvery(s, p, r, j + Len(p))

-----------------------------------------------------------------------------
(* printTextStatement (part_001 33-187).  The layout builders (hardline,   *)
(* indent, join) and createTextGroups place the text; they add no          *)
(* characters of their own here.                                           *)

createTextGroups(s) == s

\* rawString with the surrounding double quotes removed (part_001 48-55)
StripQuotes(rawString) ==
    IF At(rawString, 1, <<DQ>>) /\ rawString[Len(rawString)] = DQ
    THEN Sub(rawString, 2, Len(rawString))
    ELSE rawString

RECURSIVE PartialMatches(_, _, _)
\* the loop over the ledger of part_001 89-117 from entry n on; acc.s is
\* replacedString and acc.has is hasReplacements
PartialMatches(replacements, n, acc) ==
    IF n > Len(replacements) THEN acc
    ELSE LET placeholder == replacements[n].key
             originalContent == PayloadString(replacements[n].val)
             next ==
                 IF ~Includes(acc.s, placeholder) THEN acc
                 ELSE IF At(placeholder, 1, K_VPRE) \/ At(placeholder, 1, K_VUE_EXPR)
                 THEN [s |-> ReplaceFirst(acc.s, placeholder, originalContent), has |-> TRUE]
                 ELSE IF ~At(placeholder, 1, K_ENTITY)
                 THEN [s |-> ReplaceFirst(acc.s, placeholder,
                                          decodeHtmlEntities(originalContent)),
                       has |-> TRUE]
                 ELSE acc
         IN PartialMatches(replacements, n + 1, next)

RECURSIVE RestoreEntities(_, _, _)
\* the loop of part_001 161-171 from entry n on; acc.s is processedString
\* and acc.has is hasRestoredEntities
RestoreEntities(replacements, n, acc) ==
    IF n > Len(replacements) THEN acc
    ELSE LET placeholder == replacements[n].key
             entity == PayloadString(replacements[n].val)
             next ==
                 IF At(placeholder, 1, K_ENTITY) /\ Includes(acc.s, placeholder)
                 THEN [s |-> ReplaceEvery(acc.s, placeholder, entity, 1), has |-> TRUE]
                 ELSE acc
         IN RestoreEntities(replacements, n + 1, next)

\* rawString contains the key of a vue-expression entry (part_001 123-132)
ContainsVueExpression(rawString, replacements) ==
    \E n \in 1..Len(replacements) :
        /\ At(replacements[n].key, 1, K_VUE_EXPR)
        /\ Includes(rawString, replacements[n].key)

\* the text printed for a text node whose value is value
printTextStatement(value, replacements) ==
    LET rawString == StripQuotes(value)
        key == Trim(rawString)
    IN IF LedHas(replacements, key) /\ ~At(key, 1, K_ENTITY)
       THEN LET originalContent == PayloadString(LedGet(replacements, key))
            IN IF At(key, 1, K_VPRE) \/ At(key, 1, K_VUE_EXPR)
               THEN originalContent
               ELSE Trim(decodeHtmlEntities(originalContent))
       ELSE LET part == PartialMatches(replacements, 1, [s |-> rawString, has |-> FALSE])
                ent == RestoreEntities(replacements, 1, [s |-> rawString, has |-> FALSE])
            IN IF part.has
               THEN IF ContainsVueExpression(rawString, replacements)
                    THEN Trim(part.s)
                    ELSE createTextGroups(part.s)
               ELSE IF ~ent.has /\ \E j \in 1..Len(ent.s) : NumericRefMatch(ent.s, j) # 0
               THEN createTextGroups(decodeHtmlEntities(ent.s))
               ELSE createTextGroups(ent.s)

-----------------------------------------------------------------------------
(* printIdentifier (part_004 5-26).                                        *)

\* printIdentifier without the restoration of arrow functions
printIdentifier_unrestored(name, replacements) == name

printIdentifier(name, replacements) ==
    IF At(name, 1, K_ARROW) /\ LedHas(replacements, name)
    THEN PayloadString(LedGet(replacements, name))
    ELSE name

-----------------------------------------------------------------------------
(* printAttribute (part_003 53-298).                                       *)

\* what the printer leaves in the output when a call on a value that is
\* not a string raises a TypeError
Thrown == <<"TypeError">>

\* the printer of a string literal that needs no quotes: its value
PrintStringLiteral(value) == value

\* mayCorrectWhitespace (part_003 11-12)
mayCorrectWhitespace(attrName) ==
    attrName \in {<<"i","d">>, <<"t","y","p","e">>, <<"c","l","a","s","s">>}

\* s.replace(/\s+/g, " "): the characters kept, each run of white space
\* being kept once, as a blank
CollapseRuns(s) ==
    LET keep == {j \in 1..Len(s) : s[j] \notin Space \/ j = 1 \/ s[j - 1] \notin Space}
        Nth(n) == CHOOSE j \in keep : Cardinality({x \in keep : x < j}) = n - 1
    IN [n \in 1..Cardinality(keep) |-> IF s[Nth(n)] \in Space THEN " " ELSE s[Nth(n)]]

\* sanitizeWhitespace (part_003 14)
sanitizeWhitespace(s) == Trim(CollapseRuns(s))

RECURSIVE RestoreTwigExpressions(_, _, _)
\* mixedData.twigExpressions.forEach of part_003 141-147 from index on
RestoreTwigExpressions(restoredValue, twigExpressions, index) ==
    IF index >= Len(twigExpressions) THEN restoredValue
    ELSE RestoreTwigExpressions(
             ReplaceFirst(restoredValue, K_TWIG_EXPR \o Digits(index) \o US2,
                          <<"{", "{", " ">> \o twigExpressions[index + 1]
                              \o <<" ", "}", "}">>),
             twigExpressions, index + 1)

\* the entities of part_003 244-273 and what each is replaced by, in order
entityTable ==
    << <<<<"&","a","m","p",";">>, "&">>,
       <<<<"&","q","u","o","t",";">>, DQ>>,
       <<<<"&","#","3","9",";">>, "'">>,
       <<<<"&","#","3","3",";">>, "!">>,
       <<<<"&","#","6","1",";">>, "=">>,
       <<<<"&","l","t",";">>, "<">>,
       <<<<"&","g","t",";">>, ">">>,
       <<<<"&","#","1","2","3",";">>, "{">>,
       <<<<"&","#","1","2","5",";">>, "}">>,
       <<<<"&","#","4","0",";">>, "(">>,
       <<<<"&","#","4","1",";">>, ")">>,
       <<<<"&","#","9","1",";">>, "[">>,
       <<<<"&","#","9","3",";">>, "]">>,
       <<<<"&","#","4","3",";">>, "+">>,
       <<<<"&","#","4","5",";">>, "-">>,
       <<<<"&","#","4","2",";">>, "*">>,
       <<<<"&","#","4","7",";">>, "/">>,
       <<<<"&","#","3","7",";">>, "%">>,
       <<<<"&","#","6","3",";">>, "?">>,
       <<<<"&","#","5","8",";">>, ":">>,
       <<<<"&","#","5","9",";">>, ";">>,
       <<<<"&","#","4","4",";">>, ",">>,
       <<<<"&","#","1","2","4",";">>, "|">>,
       <<<<"&","#","3","6",";">>, "$">>,
       <<<<"&","#","6","4",";">>, "@">>,
       <<<<"&","#","3","5",";">>, "#">>,
       <<<<"&","#","9","4",";">>, "^">>,
       <<<<"&","#","1","2","6",";">>, "~">>,
       <<<<"&","#","9","6",";">>, "U+96">> >>

RECURSIVE RestoreTable(_, _)
\* the chain of replace calls of part_003 244-273 from entry n on
RestoreTable(value, n) ==
    IF n > Len(entityTable) THEN value
    ELSE RestoreTable(ReplaceEvery(value, entityTable[n][1], <<entityTable[n][2]>>, 1), n + 1)

\* originalValue of part_003 190-200 and 207-219: the value field of an
\* object that has one, else the payload itself; decoding a payload that is
\* not a string raises
StoredValue(storedData) ==
    IF storedData.type = "object" /\ storedData.text # <<>> THEN decodeHtmlEntities(storedData.text)
    ELSE IF storedData.type = "string" THEN decodeHtmlEntities(storedData.text)
    ELSE Thrown

\* what is pushed between the quotes for the string value of an attribute
\* (part_003 127-292)
AttributeValueDoc(attributeName, value, replacements) ==
    LET has == LedHas(replacements, value)
        data == LedGet(replacements, value)
    IN IF At(value, 1, K_MIXED_ATTR)
       THEN IF ~has THEN PrintStringLiteral(value)
            ELSE IF data.type = "MixedAttribute"
            THEN decodeHtmlEntities(
                     RestoreTwigExpressions(data.processedValue, data.twigExpressions, 0))
            ELSE IF data.type = "AlpineAttribute" THEN decodeHtmlEntities(data.text)
            ELSE Thrown
       ELSE IF At(value, 1, K_ALPINE_ATTR)
       THEN IF has /\ data.type = "AlpineAttribute"
            THEN decodeHtmlEntities(data.text)
            ELSE PrintStringLiteral(value)
       ELSE IF has THEN StoredValue(data)
       ELSE IF At(value, 1, K_TWIG_ATTR) THEN PrintStringLiteral(value)
       ELSE IF At(attributeName, 1, K_VUE_ALPINE)
       THEN PrintStringLiteral(RestoreTable(value, 1))
       ELSE IF \E j \in 1..Len(value) : NumericRefMatch(value, j) # 0
       THEN decodeHtmlEntities(value)
       ELSE PrintStringLiteral(value)

\* quoteChar of part_003 97-110
AttributeQuote(value, replacements) ==
    IF /\ At(value, 1, K_VUE_VALUE)
       /\ LedHas(replacements, value)
       /\ LedGet(replacements, value).type = "object"
       /\ LedGet(replacements, value).quote # ""
    THEN LedGet(replacements, value).quote
    ELSE DQ

\* the attribute name after part_003 56-89 (the in-tag placeholders aside)
AttributeName(name, replacements) ==
    LET first == IF /\ At(name, 1, K_ALPINE_PURE) \/ At(name, 1, K_ALPINE_MIXED)
                    /\ LedHas(replacements, name)
                 THEN PayloadString(LedGet(replacements, name))
                 ELSE name
    IN IF LedHas(replacements, first)
       THEN PayloadString(LedGet(replacements, first))
       ELSE first

\* the attribute printer without the return for the in-tag placeholders:
\* every attribute is printed as a name and a quoted value
printAttribute_paired(name, hasValue, isString, value, valueDoc, replacements) ==
    AttributeName(name, replacements) \o <<"=", DQ>> \o value \o <<DQ>>

\* the text printed for the attribute name[=value]; hasValue says whether
\* the node has a value and isString whether that value is a string
\* literal, valueDoc being what the expression printers give for one that
\* is not
printAttribute(name, hasValue, isString, value, valueDoc, replacements) ==
    IF /\ At(name, 1, K_TWIG_COND) \/ At(name, 1, K_TWIG_COMMENT)
       /\ LedHas(replacements, name)
    THEN PayloadString(LedGet(replacements, name))
    ELSE LET attributeName == AttributeName(name, replacements)
             quoteChar == IF isString THEN AttributeQuote(value, replacements) ELSE DQ
             corrected == IF mayCorrectWhitespace(attributeName)
                          THEN sanitizeWhitespace(value) ELSE value
         IN IF ~hasValue THEN attributeName
            ELSE attributeName \o <<"=", quoteChar>>
                   \o (IF isString
                       THEN AttributeValueDoc(attributeName, corrected, replacements)
                       ELSE valueDoc)
                   \o <<quoteChar>>

-----------------------------------------------------------------------------
(* The tree the grammar parser builds from the sanitized text, walked in   *)
(* document order: comments, expressions and tags, elements with their     *)
(* attributes, and text nodes.  Each leaf goes through the printer of its  *)
(* node type; the characters between the leaves are kept as they are.      *)

S_EXPR_OPEN == <<"{","{">>
S_EXPR_CLOSE == <<"}","}">>
S_BLOCK_CLOSE == <<"%","}">>
S_CLOSE_TAG == <<"<","/">>

RECURSIVE PrintExpression(_, _, _)
\* the expression x from character i on: every identifier goes through
\* printIdentifier, string literals and operators are kept
PrintExpression(x, i, replacements) ==
    IF i > Len(x) THEN <<>>
    ELSE IF x[i] \in {DQ, SQ}
    THEN LET c == IndexFrom(x, <<x[i]>>, i + 1)
             e == IF c = 0 THEN Len(x) + 1 ELSE c + 1
         IN Sub(x, i, e) \o PrintExpression(x, e, replacements)
    ELSE IF x[i] \in WordCh
    THEN LET e == SkipClass(x, i, WordCh)
             word == Sub(x, i, e)
         IN (IF x[i] \in Digit THEN word ELSE printIdentifier(word, replacements))
              \o PrintExpression(x, e, replacements)
    ELSE LET e == SkipNotIn(x, i + 1, WordCh \cup {DQ, SQ})
         IN Sub(x, i, e) \o PrintExpression(x, e, replacements)

\* the first position from i on at which a comment, an expression, a block
\* or a tag starts, or Len(s) + 1
NextMarkup(s, i) ==
    MinOf({j \in i..Len(s) :
              \/ s[j] = "<"
              \/ At(s, j, S_EXPR_OPEN) \/ At(s, j, S_BLOCK_OPEN) \/ At(s, j, S_COMMENT_OPEN)}
          \cup {Len(s) + 1})

\* the position after the first close from i on, or Len(s) + 1
AfterClose(s, i, close) ==
    LET c == IndexFrom(s, close, i) IN IF c = 0 THEN Len(s) + 1 ELSE c + Len(close)

RECURSIVE PrintInterpolated(_, _, _)
\* an attribute value that is not a string literal: its {{ ... }} parts are
\* expressions, the rest is kept
PrintInterpolated(v, i, replacements) ==
    IF i > Len(v) THEN <<>>
    ELSE IF At(v, i, S_EXPR_OPEN) /\ IndexFrom(v, S_EXPR_CLOSE, i + 2) # 0
    THEN LET e == AfterClose(v, i + 2, S_EXPR_CLOSE)
         IN S_EXPR_OPEN \o PrintExpression(Sub(v, i + 2, e - 2), 1, replacements)
              \o S_EXPR_CLOSE \o PrintInterpolated(v, e, replacements)
    ELSE LET starts == {j \in (i + 1)..Len(v) : At(v, j, S_EXPR_OPEN)}
             e == IF starts = {} THEN Len(v) + 1 ELSE MinOf(starts)
         IN Sub(v, i, e) \o PrintInterpolated(v, e, replacements)

RECURSIVE TagClose(_, _)
\* the position of the > that ends the tag scanned from i on, quoted
\* attribute values skipped; 0 if there is none
TagClose(s, i) ==
    LET p == SkipNotIn(s, i, {DQ, SQ, ">"})
        c == IF p <= Len(s) /\ s[p] # ">" THEN IndexFrom(s, <<s[p]>>, p + 1) ELSE 0
    IN IF p > Len(s) THEN 0
       ELSE IF s[p] = ">" THEN p
       ELSE IF c = 0 THEN 0
       ELSE TagClose(s, c + 1)

RECURSIVE PrintAttributes(_, _, _)
\* path.map(print, "attributes") on the attribute region c of a tag, from
\* character i on
PrintAttributes(c, i, replacements) ==
    IF i > Len(c) THEN <<>>
    ELSE LET n == SkipNotIn(c, i, Space \cup {"=", "/"})
             hasValue == At(c, n, <<"=">>) /\ n + 1 <= Len(c) /\ c[n + 1] \in {DQ, SQ}
             close == IF hasValue THEN IndexFrom(c, <<c[n + 1]>>, n + 2) ELSE 0
             valueEnd == IF close = 0 THEN Len(c) + 1 ELSE close
             value == IF hasValue THEN Sub(c, n + 2, valueEnd) ELSE <<>>
             isString == ~Includes(value, S_EXPR_OPEN)
             e == IF hasValue THEN (IF close = 0 THEN Len(c) + 1 ELSE close + 1) ELSE n
         IN IF n = i THEN <<c[i]>> \o PrintAttributes(c, i + 1, replacements)
            ELSE printAttribute(Sub(c, i, n), hasValue, isString, value,
                                PrintInterpolated(value, 1, replacements), replacements)
                   \o PrintAttributes(c, e, replacements)

\* /^(script|style)-content-\d+$/ (Element.js 173)
IsContentPlaceholder(value) ==
    \E k \in {K_SCRIPT, K_STYLE} :
        /\ At(value, 1, k)
        /\ Len(value) > Len(k)
        /\ SkipClass(value, Len(k) + 1, Digit) = Len(value) + 1

\* hasOnlyEmptyPlaceholders (Element.js 163-191) for an element whose one
\* child is the text node value
hasOnlyEmptyPlaceholders(value, replacements) ==
    IF IsContentPlaceholder(value)
    THEN IF LedHas(replacements, value)
         THEN Trim(PayloadString(LedGet(replacements, value))) = <<>>
         ELSE TRUE
    ELSE FALSE

\* printElement (Element.js 150-222) for the element whose opening tag is
\* s[i .. g]: the opening tag and, when the element has one text child, that
\* child; next is the position the walk goes on from
printElement(s, i, g, replacements) ==
    LET n == SkipNotIn(s, i + 1, Space \cup {">", "/"})
        opening == <<"<">> \o Sub(s, i + 1, n)
                     \o PrintAttributes(Sub(s, n, g), 1, replacements) \o <<">">>
        m == NextMarkup(s, g + 1)
        child == Sub(s, g + 1, m)
        oneTextChild == /\ s[g - 1] # "/"
                        /\ m > g + 1
                        /\ At(s, m, S_CLOSE_TAG)
    IN IF oneTextChild
       THEN [doc |-> opening \o (IF hasOnlyEmptyPlaceholders(child, replacements)
                                 THEN <<>>
                                 ELSE printTextStatement(child, replacements)),
             next |-> m]
       ELSE [doc |-> opening, next |-> g + 1]

RECURSIVE PrintFrom(_, _, _)
\* the printed text of the tree of s from character i on
PrintFrom(s, i, replacements) ==
    IF i > Len(s) THEN <<>>
    ELSE IF At(s, i, S_HTML_OPEN)
    THEN LET e == AfterClose(s, i + 4, S_HTML_CLOSE)
         IN Sub(s, i, e) \o PrintFrom(s, e, replacements)
    ELSE IF At(s, i, S_COMMENT_OPEN)
    THEN LET e == AfterClose(s, i + 2, S_COMMENT_CLOSE)
         IN Sub(s, i, e) \o PrintFrom(s, e, replacements)
    ELSE IF At(s, i, S_EXPR_OPEN) /\ IndexFrom(s, S_EXPR_CLOSE, i + 2) # 0
    THEN LET e == AfterClose(s, i + 2, S_EXPR_CLOSE)
         IN S_EXPR_OPEN \o PrintExpression(Sub(s, i + 2, e - 2), 1, replacements)
              \o S_EXPR_CLOSE \o PrintFrom(s, e, replacements)
    ELSE IF At(s, i, S_BLOCK_OPEN) /\ IndexFrom(s, S_BLOCK_CLOSE, i + 2) # 0
    THEN LET e == AfterClose(s, i + 2, S_BLOCK_CLOSE)
         IN S_BLOCK_OPEN \o PrintExpression(Sub(s, i + 2, e - 2), 1, replacements)
              \o S_BLOCK_CLOSE \o PrintFrom(s, e, replacements)
    ELSE IF At(s, i, S_CLOSE_TAG)
    THEN LET e == AfterClose(s, i + 2, <<">">>)
         IN Sub(s, i, e) \o PrintFrom(s, e, replacements)
    ELSE IF s[i] = "<" /\ i + 1 <= Len(s) /\ s[i + 1] \in Alpha /\ TagClose(s, i + 1) # 0
    THEN LET el == printElement(s, i, TagClose(s, i + 1), replacements)
         IN el.doc \o PrintFrom(s, el.next, replacements)
    ELSE LET e == NextMarkup(s, i + 1)
         IN printTextStatement(Sub(s, i, e), replacements) \o PrintFrom(s, e, replacements)

\* the text printed for the tree parsed from the sanitized text
PrintTree(sanitized, replacements) == PrintFrom(sanitized, 1, replacements)

-----------------------------------------------------------------------------
(* getMultiTagConfig (parser.js 940-945).  The configuration is a plain    *)
(* object: its own properties, in insertion order, as entries key, val.    *)

S_PROTO == <<"_","_","p","r","o","t","o","_","_">>

RECURSIVE Split(_, _)
\* s.split(",") from character i on
Split(s, i) ==
    IF IndexFrom(s, <<",">>, i) = 0 THEN <<From(s, i)>>
    ELSE <<Sub(s, i, IndexFrom(s, <<",">>, i))>> \o Split(s, IndexFrom(s, <<",">>, i) + 1)

\* names.map((s) => s.trim())
MapTrim(names) == [n \in 1..Len(names) |-> Trim(names[n])]

\* acc[k] = v on an object made by {}: the name __proto__ is the accessor
\* of Object.prototype, so the assignment of an array sets the prototype
\* of acc and makes no property
ObjSet(acc, k, v) == IF k = S_PROTO THEN acc ELSE LedSet(acc, k, v)

\* the callback of reduce on the names of one entry
MultiTagEntry(acc, tagNames) == ObjSet(acc, Trim(tagNames[1]), MapTrim(Tail(tagNames)))

RECURSIVE MultiTagReduce(_, _, _)
\* tagsCsvs.reduce(callback, acc) from entry n on
MultiTagReduce(acc, tagsCsvs, n) ==
    IF n > Len(tagsCsvs) THEN acc
    ELSE MultiTagReduce(MultiTagEntry(acc, Split(tagsCsvs[n], 1)), tagsCsvs, n + 1)

getMultiTagConfig(tagsCsvs) == MultiTagReduce(<<>>, tagsCsvs, 1)

-----------------------------------------------------------------------------
(* The inputs.  A source text is a concatenation of fragments, each a      *)
(* small document of its own.                                              *)

Corpus ==
    <<
       \* 1: <p v-pre><b>{{ r }}</b></p><script>a()</script><a {% if x %}{% if y %}c{% endif %}{% endif %}>t</a><i @k.stop="go">t</i>
       <<"<","p"," ","v","-","p","r","e",">","<","b",">","{","{"," ","r"," ","}","}","<","/","b",">","<","/","p",">","<","s","c","r","i","p","t",">","a","(",")","<","/","s","c","r","i","p","t",">","<","a"," ","{","%"," ","i","f"," ","x"," ","%","}","{","%"," ","i","f"," ","y"," ","%","}","c","{","%"," ","e","n","d","i","f"," ","%","}","{","%"," ","e","n","d","i","f"," ","%","}",">","t","<","/","a",">","<","i"," ","@","k",".","s","t","o","p","=","\"","g","o","\"",">","t","<","/","i",">">>,
       \* 2: <div v-pre>{{ r }} x-y</div><script type="module">b</script><a id="k" {% if x %}{% if y %}c{% endif %}d{% endif %}>t</a><b v-on:k.x.y="go">t</b>
       <<"<","d","i","v"," ","v","-","p","r","e",">","{","{"," ","r"," ","}","}"," ","x","-","y","<","/","d","i","v",">","<","s","c","r","i","p","t"," ","t","y","p","e","=","\"","m","o","d","u","l","e","\"",">","b","<","/","s","c","r","i","p","t",">","<","a"," ","i","d","=","\"","k","\""," ","{","%"," ","i","f"," ","x"," ","%","}","{","%"," ","i","f"," ","y"," ","%","}","c","{","%"," ","e","n","d","i","f"," ","%","}","d","{","%"," ","e","n","d","i","f"," ","%","}",">","t","<","/","a",">","<","b"," ","v","-","o","n",":","k",".","x",".","y","=","\"","g","o","\"",">","t","<","/","b",">">>,
       \* 3: <i :k="{a:{b:1}}">${ n +\n 1 }</i>{{ x|map(v => v) }}&#38;
       <<"<","i"," ",":","k","=","\"","{","a",":","{","b",":","1","}","}","\"",">","$","{"," ","n"," ","+","\n"," ","1"," ","}","<","/","i",">","{","{"," ","x","|","m","a","p","(","v"," ","=",">"," ","v",")"," ","}","}","&","#","3","8",";">>,
       \* 4: <b x-data="{ a: { b: 1 } }">${ "a  b" +\n c }</b>{{ x|filter(v => v > 1)|first }} &#169;
       <<"<","b"," ","x","-","d","a","t","a","=","\"","{"," ","a",":"," ","{"," ","b",":"," ","1"," ","}"," ","}","\"",">","$","{"," ","\"","a"," "," ","b","\""," ","+","\n"," ","c"," ","}","<","/","b",">","{","{"," ","x","|","f","i","l","t","e","r","(","v"," ","=",">"," ","v"," ",">"," ","1",")","|","f","i","r","s","t"," ","}","}"," ","&","#","1","6","9",";">>,
       \* 5: <div v-pre><p x-data="a">t</p></div>
       <<"<","d","i","v"," ","v","-","p","r","e",">","<","p"," ","x","-","d","a","t","a","=","\"","a","\"",">","t","<","/","p",">","<","/","d","i","v",">">>,
       \* 6: <div v-pre><p v-if="a">${ b }</p></div>
       <<"<","d","i","v"," ","v","-","p","r","e",">","<","p"," ","v","-","i","f","=","\"","a","\"",">","$","{"," ","b"," ","}","<","/","p",">","<","/","d","i","v",">">>,
       \* 7: <svg xmlns:xlink="u"></svg>
       <<"<","s","v","g"," ","x","m","l","n","s",":","x","l","i","n","k","=","\"","u","\"",">","<","/","s","v","g",">">>,
       \* 8: <!-- <p x-data="a"> -->
       <<"<","!","-","-"," ","<","p"," ","x","-","d","a","t","a","=","\"","a","\"",">"," ","-","-",">">>,
       \* 9: <!-- <p v-if="a" @c="b"> -->
       <<"<","!","-","-"," ","<","p"," ","v","-","i","f","=","\"","a","\""," ","@","c","=","\"","b","\"",">"," ","-","-",">">>,
       \* 10: {# <p :d="a" v-on:e> #}
       <<"{","#"," ","<","p"," ",":","d","=","\"","a","\""," ","v","-","o","n",":","e",">"," ","#","}">>,
       \* 11: <p v-if='a "b" c'>t</p>
       <<"<","p"," ","v","-","i","f","=","'","a"," ","\"","b","\""," ","c","'",">","t","<","/","p",">">>,
       \* 12: <p title='a "b" c'>t</p>
       <<"<","p"," ","t","i","t","l","e","=","'","a"," ","\"","b","\""," ","c","'",">","t","<","/","p",">">>,
       \* 13: <p class='a'>t</p>
       <<"<","p"," ","c","l","a","s","s","=","'","a","'",">","t","<","/","p",">">>,
       \* 14: <p v-if="a &#38; b">t</p>
       <<"<","p"," ","v","-","i","f","=","\"","a"," ","&","#","3","8",";"," ","b","\"",">","t","<","/","p",">">>,
       \* 15: <p x-show="a&#38;b">t</p>
       <<"<","p"," ","x","-","s","h","o","w","=","\"","a","&","#","3","8",";","b","\"",">","t","<","/","p",">">>,
       \* 16: t &#233; &amp; u
       <<"t"," ","&","#","2","3","3",";"," ","&","a","m","p",";"," ","u">>,
       \* 17: <script> a( ) </script>
       <<"<","s","c","r","i","p","t",">"," ","a","("," ",")"," ","<","/","s","c","r","i","p","t",">">>,
       \* 18: <style>b { }</style>
       <<"<","s","t","y","l","e",">","b"," ","{"," ","}","<","/","s","t","y","l","e",">">>,
       \* 19: <script type="text/x">r</script>
       <<"<","s","c","r","i","p","t"," ","t","y","p","e","=","\"","t","e","x","t","/","x","\"",">","r","<","/","s","c","r","i","p","t",">">>,
       \* 20: <p class="a b">hi</p>
       <<"<","p"," ","c","l","a","s","s","=","\"","a"," ","b","\"",">","h","i","<","/","p",">">>,
       \* 21: {{ a|upper }} mail me@home now
       <<"{","{"," ","a","|","u","p","p","e","r"," ","}","}"," ","m","a","i","l"," ","m","e","@","h","o","m","e"," ","n","o","w">>,
       \* 22: <p>script-content-7</p>
       <<"<","p",">","s","c","r","i","p","t","-","c","o","n","t","e","n","t","-","7","<","/","p",">">>,
       \* 23: <p title="mixed-attr-3" data-twig-conditional-2="1">style-content-9 x</p>
       <<"<","p"," ","t","i","t","l","e","=","\"","m","i","x","e","d","-","a","t","t","r","-","3","\""," ","d","a","t","a","-","t","w","i","g","-","c","o","n","d","i","t","i","o","n","a","l","-","2","=","\"","1","\"",">","s","t","y","l","e","-","c","o","n","t","e","n","t","-","9"," ","x","<","/","p",">">>,
       \* 24: <p title="mail me@home now">t</p>
       <<"<","p"," ","t","i","t","l","e","=","\"","m","a","i","l"," ","m","e","@","h","o","m","e"," ","n","o","w","\"",">","t","<","/","p",">">>,
       \* 25: <p v-if="a=b" {% if x %}c{% endif %}>t</p>
       <<"<","p"," ","v","-","i","f","=","\"","a","=","b","\""," ","{","%"," ","i","f"," ","x"," ","%","}","c","{","%"," ","e","n","d","i","f"," ","%","}",">","t","<","/","p",">">>,
       \* 26: <a {# c #} title="{% if a %}" {% if x %}c{% endif %} {% if y %}d{% endif %}>t</a>
       <<"<","a"," ","{","#"," ","c"," ","#","}"," ","t","i","t","l","e","=","\"","{","%"," ","i","f"," ","a"," ","%","}","\""," ","{","%"," ","i","f"," ","x"," ","%","}","c","{","%"," ","e","n","d","i","f"," ","%","}"," ","{","%"," ","i","f"," ","y"," ","%","}","d","{","%"," ","e","n","d","i","f"," ","%","}",">","t","<","/","a",">">>,
       \* 27: <b x-data="{ a: 'b', c: [1] }" @click="d === e || f; g()">t</b>
       <<"<","b"," ","x","-","d","a","t","a","=","\"","{"," ","a",":"," ","'","b","'",","," ","c",":"," ","[","1","]"," ","}","\""," ","@","c","l","i","c","k","=","\"","d"," ","=","=","="," ","e"," ","|","|"," ","f",";"," ","g","(",")","\"",">","t","<","/","b",">">>,
       \* 28: <i :k="h ? 'i' : j" style="color: red; top: 0" {% if x %}y{% endif %}>t</i>
       <<"<","i"," ",":","k","=","\"","h"," ","?"," ","'","i","'"," ",":"," ","j","\""," ","s","t","y","l","e","=","\"","c","o","l","o","r",":"," ","r","e","d",";"," ","t","o","p",":"," ","0","\""," ","{","%"," ","i","f"," ","x"," ","%","}","y","{","%"," ","e","n","d","i","f"," ","%","}",">","t","<","/","i",">">>,
       \* 29: <b x-on:click="a || b" x-data="{ a: {{b}} }">t</b>
       <<"<","b"," ","x","-","o","n",":","c","l","i","c","k","=","\"","a"," ","|","|"," ","b","\""," ","x","-","d","a","t","a","=","\"","{"," ","a",":"," ","{","{","b","}","}"," ","}","\"",">","t","<","/","b",">">>,
       \* 30: <i style=" color: red; " {% if x %}y{% endif %}>t</i>
       <<"<","i"," ","s","t","y","l","e","=","\""," ","c","o","l","o","r",":"," ","r","e","d",";"," ","\""," ","{","%"," ","i","f"," ","x"," ","%","}","y","{","%"," ","e","n","d","i","f"," ","%","}",">","t","<","/","i",">">>,
       \* 31: <a {% if x %}c id="a;b">t</a>
       <<"<","a"," ","{","%"," ","i","f"," ","x"," ","%","}","c"," ","i","d","=","\"","a",";","b","\"",">","t","<","/","a",">">>,
       \* 32: <a {# c id="k">t</a>
       <<"<","a"," ","{","#"," ","c"," ","i","d","=","\"","k","\"",">","t","<","/","a",">">>,
       \* 33: <div v-pre>x
       <<"<","d","i","v"," ","v","-","p","r","e",">","x">>,
       \* 34: <a class="{% if a %}b{% endif %}" {% if x %}c{% endif %}>t</a>
       <<"<","a"," ","c","l","a","s","s","=","\"","{","%"," ","i","f"," ","a"," ","%","}","b","{","%"," ","e","n","d","i","f"," ","%","}","\""," ","{","%"," ","i","f"," ","x"," ","%","}","c","{","%"," ","e","n","d","i","f"," ","%","}",">","t","<","/","a",">">>,
       \* 35: <p v-show='a'>t</p>
       <<"<","p"," ","v","-","s","h","o","w","=","'","a","'",">","t","<","/","p",">">>,
       \* 36: <style> </style><script></script>
       <<"<","s","t","y","l","e",">"," ","<","/","s","t","y","l","e",">","<","s","c","r","i","p","t",">","<","/","s","c","r","i","p","t",">">>,
       \* 37: <script type=text/x>r</script>
       <<"<","s","c","r","i","p","t"," ","t","y","p","e","=","t","e","x","t","/","x",">","r","<","/","s","c","r","i","p","t",">">>,
       \* 38: <i>${a}${a}${a}${a}${a}${a}${a}${a}${a}${a}</i><b>x ${k} y</b>
       <<"<","i",">","$","{","a","}","$","{","a","}","$","{","a","}","$","{","a","}","$","{","a","}","$","{","a","}","$","{","a","}","$","{","a","}","$","{","a","}","$","{","a","}","<","/","i",">","<","b",">","x"," ","$","{","k","}"," ","y","<","/","b",">">>,
       \* 39: <p>a &#38; ${b}</p><script>c &#60; d</script>
       <<"<","p",">","a"," ","&","#","3","8",";"," ","$","{","b","}","<","/","p",">","<","s","c","r","i","p","t",">","c"," ","&","#","6","0",";"," ","d","<","/","s","c","r","i","p","t",">">>,
       \* 40: <p v-cloak="" @click='' x-show="">t</p>
       <<"<","p"," ","v","-","c","l","o","a","k","=","\"","\""," ","@","c","l","i","c","k","=","'","'"," ","x","-","s","h","o","w","=","\"","\"",">","t","<","/","p",">">>
    >>

\* the most fragments a source text is made of
MaxFrags == 2

\* the longest source text
MaxInputLen == 230

RECURSIVE Concat(_, _)
\* the fragments picked (a set of indices), from index n on, in the order
\* of the corpus
Concat(picked, n) ==
    IF n > Len(Corpus) THEN <<>>
    ELSE (IF n \in picked THEN Corpus[n] ELSE <<>>) \o Concat(picked, n + 1)

RECURSIVE Picks(_)
\* the sets of at most n fragments
Picks(n) ==
    IF n = 0 THEN {{}}
    ELSE LET fewer == Picks(n - 1)
         IN fewer \cup {p \cup {i} : p \in fewer, i \in 1..Len(Corpus)}

Inputs ==
    {x \in {Concat(picked, 1) : picked \in Picks(MaxFrags) \ {{}}} :
        Len(x) <= MaxInputLen}

-----------------------------------------------------------------------------
(* The run of parse (parser.js 947-988) on one source text, pass by pass,  *)
(* and the printing of the tree.                                           *)

VARIABLES
    input,                  \* text, the argument of parse
    pc,                     \* the pass that runs next
    processedText,
    replacements,           \* the map of preprocessVueAlpineAttributes
    replacementCounter,
    ids,                    \* every placeholder id generated so far, in order
    emb,                    \* the calls of the sub-formatters
    formatter,              \* how the sub-formatters behave in this run
    arrowFuncReplacements,
    combinedReplacements,   \* ast[VUE_ALPINE_REPLACEMENTS]
    output,                 \* the printed text
    other,                  \* the locals of a second invocation of parse
    twigMultiTags,          \* options.twigMultiTags
    multiTagConfig,
    scanner                 \* the locals of parseComplexAttributeValue at its return

vars == <<input, pc, processedText, replacements, replacementCounter, ids, emb,
          formatter, arrowFuncReplacements, combinedReplacements, output, other,
          twigMultiTags, multiTagConfig, scanner>>

\* no second invocation
NoRun == [pc |-> "idle"]

Init ==
    /\ input \in Inputs
    /\ pc = "alpine"
    /\ processedText = input
    /\ replacements = <<>>
    /\ replacementCounter = 0
    /\ ids = <<>>
    /\ emb = <<>>
    /\ formatter = "unused"
    /\ arrowFuncReplacements = <<>>
    /\ combinedReplacements = <<>>
    /\ output = <<>>
    /\ other = NoRun
    /\ twigMultiTags = <<>>
    /\ multiTagConfig = <<>>
    /\ scanner = ScannerStart

\* the state the passes of preprocessVueAlpineAttributes work on
Current == PassState(processedText, replacementCounter, replacements, ids, emb)

\* the pass leaves st behind and `to` runs next
Becomes(st, to) ==
    /\ processedText' = st.out
    /\ replacementCounter' = st.ctr
    /\ replacements' = st.led
    /\ ids' = st.ids
    /\ emb' = st.emb
    /\ pc' = to
    /\ UNCHANGED <<input, arrowFuncReplacements, combinedReplacements, output, other,
                   twigMultiTags, multiTagConfig, scanner>>

\* parser.js 351-357
AlpineStage ==
    /\ pc = "alpine"
    /\ Becomes(preprocessAlpineJSAttributes(Current), "vpre")
    /\ UNCHANGED formatter

\* parser.js 359-383
VPreStage ==
    /\ pc = "vpre"
    /\ Becomes(VPrePass(Current), "entity")
    /\ UNCHANGED formatter

\* parser.js 385-393
EntityStage ==
    /\ pc = "entity"
    /\ Becomes(EntityPass(Current), "embedded")
    /\ UNCHANGED formatter

\* the fourth pass leaves st behind; formatter is how the sub-formatters
\* behaved, "unused" when none was called
EmbeddedBecomes(fmt, st) ==
    /\ Becomes(st, "intag")
    /\ formatter' = IF \E n \in 1..Len(st.emb) : st.emb[n].called
                    THEN fmt ELSE "unused"

\* parser.js 395-458; the sub-formatters behave in one of the ways of
\* Formatters
EmbeddedStage ==
    /\ pc = "embedded"
    /\ \E fmt \in Formatters : EmbeddedBecomes(fmt, EmbeddedPass(fmt, Current))

\* parser.js 459-667
InTagStage ==
    /\ pc = "intag"
    /\ Becomes(InTagPass(Current), "names")
    /\ UNCHANGED formatter

\* parser.js 669-762
DirectiveNameStage ==
    /\ pc = "names"
    /\ Becomes(DirectiveNamePass(Current), "values")
    /\ UNCHANGED formatter

\* parser.js 764-804
DirectiveValueStage ==
    /\ pc = "values"
    /\ Becomes(DirectiveValuePass(Current), "expressions")
    /\ UNCHANGED formatter

\* parser.js 806-821
VueExpressionStage ==
    /\ pc = "expressions"
    /\ Becomes(VueExpressionPass(Current), "quotes")
    /\ UNCHANGED formatter

\* parser.js 823-842
QuoteStage ==
    /\ pc = "quotes"
    /\ Becomes(QuoteNormalizePass(Current), "arrow")
    /\ UNCHANGED formatter

\* preprocessTwigArrowFunctions leaves st behind
ArrowBecomes(st) ==
    /\ processedText' = st.out
    /\ arrowFuncReplacements' = st.led
    /\ ids' = st.ids

\* parser.js 965-968: preprocessTwigArrowFunctions(processedText)
ArrowStage ==
    /\ pc = "arrow"
    /\ ArrowBecomes(preprocessTwigArrowFunctions(PassState(processedText, 0, <<>>, ids, emb)))
    /\ pc' = "merge"
    /\ UNCHANGED <<input, replacements, replacementCounter, emb, formatter,
                   combinedReplacements, output, other,
                   twigMultiTags, multiTagConfig, scanner>>

\* parser.js 976-986
MergeStage ==
    /\ pc = "merge"
    /\ combinedReplacements' =
           LedMerge(LedMerge(<<>>, replacements, 1), arrowFuncReplacements, 1)
    /\ pc' = "print"
    /\ UNCHANGED <<input, processedText, replacements, replacementCounter, ids, emb,
                   formatter, arrowFuncReplacements, output, other,
                   twigMultiTags, multiTagConfig, scanner>>

\* the printers run on the tree of the sanitized text
PrintStage ==
    /\ pc = "print"
    /\ output' = PrintTree(processedText, combinedReplacements)
    /\ pc' = "done"
    /\ UNCHANGED <<input, processedText, replacements, replacementCounter, ids, emb,
                   formatter, arrowFuncReplacements, combinedReplacements, other,
                   twigMultiTags, multiTagConfig, scanner>>

Next ==
    \/ AlpineStage
    \/ VPreStage
    \/ EntityStage
    \/ EmbeddedStage
    \/ InTagStage
    \/ DirectiveNameStage
    \/ DirectiveValueStage
    \/ VueExpressionStage
    \/ QuoteStage
    \/ ArrowStage
    \/ MergeStage
    \/ PrintStage

Spec == Init /\ [][Next]_vars

-----------------------------------------------------------------------------
(* Several invocations of parse.  The locals of the invocation that runs   *)
(* are the variables above; `other` holds the locals of a second one, that *)
(* is suspended between two passes or has returned.                        *)

\* the source texts of the invocations
RunInputs == {Corpus[3], Corpus[14], Corpus[17]}

\* the locals of the invocation that runs
ThisRun ==
    [input |-> input, pc |-> pc, processedText |-> processedText,
     replacements |-> replacements, replacementCounter |-> replacementCounter,
     ids |-> ids, emb |-> emb, formatter |-> formatter,
     arrowFuncReplacements |-> arrowFuncReplacements,
     combinedReplacements |-> combinedReplacements, output |-> output]

\* an invocation whose map and counter are those of the invocation that
\* ran before it
NewRun_shared(text) ==
    [input |-> text, pc |-> "alpine", processedText |-> text,
     replacements |-> replacements, replacementCounter |-> replacementCounter,
     ids |-> <<>>, emb |-> <<>>, formatter |-> "unused",
     arrowFuncReplacements |-> <<>>, combinedReplacements |-> <<>>, output |-> <<>>]

\* parse(text) begins: preprocessVueAlpineAttributes makes its map and its
\* counter (parser.js 346-349)
NewRun(text) ==
    [input |-> text, pc |-> "alpine", processedText |-> text,
     replacements |-> <<>>, replacementCounter |-> 0,
     ids |-> <<>>, emb |-> <<>>, formatter |-> "unused",
     arrowFuncReplacements |-> <<>>, combinedReplacements |-> <<>>, output |-> <<>>]

\* the invocation `run` runs, the one that ran is kept in other
Resume(run) ==
    /\ input' = run.input
    /\ pc' = run.pc
    /\ processedText' = run.processedText
    /\ replacements' = run.replacements
    /\ replacementCounter' = run.replacementCounter
    /\ ids' = run.ids
    /\ emb' = run.emb
    /\ formatter' = run.formatter
    /\ arrowFuncReplacements' = run.arrowFuncReplacements
    /\ combinedReplacements' = run.combinedReplacements
    /\ output' = run.output
    /\ other' = ThisRun
    /\ UNCHANGED <<twigMultiTags, multiTagConfig, scanner>>

\* parse is called again, after the invocation that runs has returned or
\* between two of its passes
Invoke ==
    /\ other.pc \in {"idle", "done"}
    /\ \E text \in RunInputs : Resume(NewRun(text))

\* the two invocations take turns
Switch ==
    /\ other.pc # "idle"
    /\ Resume(other)

InitRuns == Init /\ input \in RunInputs

NextRuns ==
    \/ AlpineStage
    \/ VPreStage
    \/ EntityStage
    \/ EmbeddedStage
    \/ InTagStage
    \/ DirectiveNameStage
    \/ DirectiveValueStage
    \/ VueExpressionStage
    \/ QuoteStage
    \/ ArrowStage
    \/ MergeStage
    \/ PrintStage
    \/ Invoke
    \/ Switch

SpecRuns == InitRuns /\ [][NextRuns]_vars

-----------------------------------------------------------------------------
(* The first statement of parse that depends on the options: the           *)
(* configuration of the multi tags (parser.js 949).  The passes do not     *)
(* read it; the runs above are those of the default, no entry.             *)

\* the entries the option is made of
CsvEntries ==
    {<<"i","f",",","e","l","s","e",",","e","n","d","i","f">>, <<" ","f","o","r"," ",","," ","e","n","d","f","o","r"," ">>, <<"x">>, <<"i","f",",","e","n","d">>, <<>>, <<"a",",",",","b">>, <<"_","_","p","r","o","t","o","_","_",",","y">>}

\* the most entries of the option
MaxEntries == 3

\* the values of options.twigMultiTags
OptionValues ==
    UNION {[1..n -> CsvEntries] : n \in 0..MaxEntries}

InitConfig ==
    /\ input = <<>>
    /\ pc = "config"
    /\ processedText = <<>>
    /\ replacements = <<>>
    /\ replacementCounter = 0
    /\ ids = <<>>
    /\ emb = <<>>
    /\ formatter = "unused"
    /\ arrowFuncReplacements = <<>>
    /\ combinedReplacements = <<>>
    /\ output = <<>>
    /\ other = NoRun
    /\ twigMultiTags \in OptionValues
    /\ multiTagConfig = <<>>
    /\ scanner = ScannerStart

\* parser.js 949: getMultiTagConfig(options.twigMultiTags || [])
ConfigStage ==
    /\ pc = "config"
    /\ multiTagConfig' = getMultiTagConfig(twigMultiTags)
    /\ pc' = "alpine"
    /\ UNCHANGED <<input, processedText, replacements, replacementCounter, ids, emb,
                   formatter, arrowFuncReplacements, combinedReplacements, output, other,
                   twigMultiTags, scanner>>

NextConfig == ConfigStage

SpecConfig == InitConfig /\ [][NextConfig]_vars

-----------------------------------------------------------------------------
(* The scanners on their own: the expression normalizer, the scanner of    *)
(* parseComplexAttributeValue and the two block scanners of the fifth      *)
(* pass, each applied to the texts made of a few tokens.                   *)

\* the most tokens of a scanned text
MaxTokens == 5

RECURSIVE Flatten(_, _)
\* the tokens f[n..] joined
Flatten(f, n) == IF n > Len(f) THEN <<>> ELSE f[n] \o Flatten(f, n + 1)

\* the texts made of at most MaxTokens of the tokens
Texts(tokens) ==
    UNION {{Flatten(f, 1) : f \in [1..n -> tokens]} : n \in 0..MaxTokens}

\* expressions for normalizeJavaScriptWhitespace
ExpressionInputs == Texts({<<DQ>>, <<SQ>>, <<BS>>, <<" ">>, <<NL>>, <<"a">>})

\* values for parseComplexAttributeValue
ValueInputs == Texts({<<DQ>>, <<SQ>>, <<BS>>, <<"{">>, <<"}">>})

\* tag contents for the block scanners
TagInputs ==
    Texts({<<DQ>>, <<SQ>>, <<BS>>, S_IF, S_ENDIF})
        \cup Texts({<<DQ>>, <<SQ>>, <<BS>>, S_COMMENT_OPEN, S_COMMENT_CLOSE})

\* what stands before the filter call of an arrow input: nothing, or an
\* arrow function without parentheses around it
ArrowHeads == {<<>>, <<"v","=",">","v",",">>}

\* a filter call up to its opening parenthesis
S_CALL == <<"x","|","m","(">>

\* expressions for preprocessTwigArrowFunctions: one filter call whose
\* argument is made of the tokens
ArrowInputs ==
    {h \o S_CALL \o t \o <<")">> :
        h \in ArrowHeads,
        t \in Texts({<<"v","=",">">>, <<"f","(">>, <<")">>, <<"v">>, <<" ">>})}

\* a directive up to the quote that opens its value
S_DIRECTIVE == <<"x","-","d","a","t","a","=","\"">>

\* directives for preprocessAlpineJSAttributes and printAttribute: a value
\* made of expression delimiters and other characters
MixedInputs ==
    {S_DIRECTIVE \o v \o <<DQ>> :
        v \in Texts({S_EXPR_OPEN, S_EXPR_CLOSE, <<"a">>, <<" ">>, <<"$">>, <<SQ>>})}

InitScan ==
    /\ input \in ExpressionInputs \cup ValueInputs \cup TagInputs \cup ArrowInputs
                 \cup MixedInputs
    /\ pc = "scan"
    /\ processedText = input
    /\ replacements = <<>>
    /\ replacementCounter = 0
    /\ ids = <<>>
    /\ emb = <<>>
    /\ formatter = "unused"
    /\ arrowFuncReplacements = <<>>
    /\ combinedReplacements = <<>>
    /\ output = <<>>
    /\ other = NoRun
    /\ twigMultiTags = <<>>
    /\ multiTagConfig = <<>>
    /\ scanner = ScannerStart

\* what a scanner step leaves alone
ScanKeeps ==
    UNCHANGED <<input, processedText, replacements, replacementCounter, ids, emb,
                formatter, arrowFuncReplacements, combinedReplacements, other,
                twigMultiTags, multiTagConfig>>

\* normalizeJavaScriptWhitespace(expression) (parser.js 816-817)
NormalizeStep ==
    /\ pc = "scan"
    /\ input \in ExpressionInputs
    /\ output' = normalizeJavaScriptWhitespace(input)
    /\ scanner' = [stringChar |-> NormalizerQuote(input, 1, "", FALSE)]
    /\ pc' = "normalized"
    /\ ScanKeeps

\* the normalizer on its own result
NormalizeAgainStep ==
    /\ pc = "normalized"
    /\ output' = normalizeJavaScriptWhitespace(output)
    /\ scanner' = [stringChar |-> NormalizerQuote(output, 1, "", FALSE)]
    /\ pc' = "renormalized"
    /\ ScanKeeps

\* parseComplexAttributeValue(attrName, attrValue) (parser.js 639-643)
ValueScanStep ==
    /\ pc = "scan"
    /\ input \in ValueInputs
    /\ output' = parseComplexAttributeValue(<<>>, input)
    /\ scanner' = ComplexScan(input, 1, ScannerStart)
    /\ pc' = "parsed"
    /\ ScanKeeps

\* the comment blocks and the conditional blocks of one tag (parser.js 487-620)
TagScanStep ==
    /\ pc = "scan"
    /\ input \in TagInputs
    /\ Becomes(ConditionalStep(CommentStep(Current)), "isolated")
    /\ UNCHANGED formatter

\* the identifiers of the expression st.out printed (part_004 5-26)
ArrowPrinted(st) == PrintExpression(st.out, 1, st.led)

\* preprocessTwigArrowFunctions(text) (parser.js 965-968) and the printer on
\* its result
ArrowScanBecomes(st) ==
    /\ ArrowBecomes(st)
    /\ output' = ArrowPrinted(st)

ArrowScanStep ==
    /\ pc = "scan"
    /\ input \in ArrowInputs
    /\ ArrowScanBecomes(preprocessTwigArrowFunctions(PassState(processedText, 0, <<>>, ids, emb)))
    /\ pc' = "protected"
    /\ UNCHANGED <<input, replacements, replacementCounter, emb, formatter,
                   combinedReplacements, other, twigMultiTags, multiTagConfig, scanner>>

\* the attribute name="value" that is the text c, printed (part_003 53-298)
PrintedAttribute(c, eq, led) ==
    printAttribute(Sub(c, 1, eq), TRUE, TRUE, Sub(c, eq + 2, Len(c)), <<>>, led)

\* preprocessAlpineJSAttributes leaves st behind, and the attribute printer
\* prints the attribute it has left in the text
MixedScanBecomes(st) ==
    /\ Becomes(st, "mixed")
    /\ UNCHANGED formatter

MixedScanStep ==
    /\ pc = "scan"
    /\ input \in MixedInputs
    /\ MixedScanBecomes(preprocessAlpineJSAttributes(Current))

PrintAttributeStep ==
    /\ pc = "mixed"
    /\ output' = PrintedAttribute(processedText, IndexFrom(processedText, <<"=">>, 1),
                                  replacements)
    /\ pc' = "printed"
    /\ UNCHANGED scanner
    /\ ScanKeeps

NextScan ==
    \/ NormalizeStep
    \/ NormalizeAgainStep
    \/ ValueScanStep
    \/ TagScanStep
    \/ ArrowScanStep
    \/ MixedScanStep
    \/ PrintAttributeStep

SpecScan == InitScan /\ [][NextScan]_vars

-----------------------------------------------------------------------------
(* Properties.  The run is over when pc = "done"; input is the source      *)
(* text, processedText the sanitized text, output the printed text.        *)

Done == pc = "done"

\* s[i] lies inside a tag: the last < before it is not closed
InsideTagAt(s, i) == LastIndexOf(s, i - 1, <<"<">>) > LastIndexOf(s, i - 1, <<">">>)

\* the positions after the directive names that start at i, whatever the
\* pattern that finds them
DirectiveEnds(s, i) ==
    ({AlpineNameEnd(k, s, i) : k \in 1..NumAlpinePatterns}
        \cup {DirectiveNameEnd(index, s, i) : index \in 0..(NumDirectivePatterns - 1)})
        \ {0}

\* v holds a brace inside a brace
NestedBraces(v) ==
    \E a, b \in 1..Len(v) :
        /\ a < b
        /\ v[a] = "{"
        /\ v[b] = "{"
        /\ IndexFrom(v, <<"}">>, a) > b

\* (a) an element with v-pre
HasRawBlock(s) == \E j \in 1..Len(s) : VPreMatch(s, j) # 0

\* (b) a script element
HasScriptBlock(s) ==
    \E j \in 1..Len(s) : EmbeddedMatch(s, j) # 0 /\ EmbeddedTag(s, j + 1) = S_SCRIPT

\* (c) an if block inside an if block inside a tag
HasNestedConditional(s) ==
    \E i, j \in 1..Len(s) :
        /\ i < j
        /\ At(s, i, S_IF)
        /\ At(s, j, S_IF)
        /\ InsideTagAt(s, i)
        /\ IndexFrom(s, S_ENDIF, i) > j

\* (d) a directive attribute whose name has dotted modifiers
HasDottedDirective(s) ==
    \E j \in 1..Len(s) : \E e \in DirectiveEnds(s, j) : Includes(Sub(s, j, e), <<".">>)

\* (e) a directive attribute whose value has nested braces
HasNestedBraceValue(s) ==
    \E j \in 1..Len(s) : \E e \in DirectiveEnds(s, j) :
        /\ At(s, e, <<"=", DQ>>)
        /\ IndexFrom(s, <<DQ>>, e + 2) # 0
        /\ NestedBraces(Sub(s, e + 2, IndexFrom(s, <<DQ>>, e + 2)))

\* (f) a ${...} expression with a line break inside
HasBrokenExpression(s) ==
    \E j \in 1..Len(s) :
        /\ VueExpressionMatch(s, j) # 0
        /\ Includes(Sub(s, j, VueExpressionMatch(s, j)), <<NL>>)

\* (g) an arrow function inside a filter call
HasArrowInCall(s) == \E j \in 1..Len(s) : ArrowCallMatch(s, j) # 0

\* (h) a numeric character reference
HasNumericReference(s) == \E j \in 1..Len(s) : NumericRefMatch(s, j) # 0

\* s holds each of the eight constructs (a) .. (h)
AllConstructs(s) ==
    /\ HasRawBlock(s)
    /\ HasScriptBlock(s)
    /\ HasNestedConditional(s)
    /\ HasDottedDirective(s)
    /\ HasNestedBraceValue(s)
    /\ HasBrokenExpression(s)
    /\ HasArrowInCall(s)
    /\ HasNumericReference(s)

\* the fragments of the corpus that hold the eight constructs and nothing
\* else
ConstructFragments == {1, 2, 3, 4}

\* s is made of construct fragments only
FromConstructs(s) ==
    \E picked \in SUBSET ConstructFragments : picked # {} /\ s = Concat(picked, 1)

RECURSIVE WithNormalizedExpressions(_, _)
\* s from character i on, each ${...} of it with its white space normalized
WithNormalizedExpressions(s, i) ==
    LET starts == {j \in i..Len(s) : VueExpressionMatch(s, j) # 0}
    IN IF starts = {} THEN From(s, i)
       ELSE LET j == MinOf(starts)
                e == VueExpressionMatch(s, j)
            IN Sub(s, i, j) \o <<"$", "{">>
                 \o normalizeJavaScriptWhitespace(Sub(s, j + 2, e - 1)) \o <<"}">>
                 \o WithNormalizedExpressions(s, e)

-----------------------------------------------------------------------------
(* Raw content (v-pre).                                                     *)

\* the payloads stored under v-pre-content keys, in the order of the ledger
VPrePayloads(led) ==
    LET kept == SelectSeq(led, LAMBDA en : At(en.key, 1, K_VPRE))
    IN [n \in 1..Len(kept) |-> kept[n].val.text]

\* the inner contents of the v-pre elements of the source text s: what the
\* v-pre pass stores when it is the first to run
RawContents(s) == VPrePayloads(VPrePass(PassState(s, 0, <<>>, <<>>, <<>>)).led)

\* C2: the payload stored for each element with v-pre is the inner content
\* of that element in the source text, character for character, and the
\* printed text holds that payload as it is.
C2_RawContentFirst ==
    Done =>
        /\ VPrePayloads(combinedReplacements) = RawContents(input)
        /\ \A n \in 1..Len(VPrePayloads(combinedReplacements)) :
               Includes(output, VPrePayloads(combinedReplacements)[n])

-----------------------------------------------------------------------------
(* Placeholder ids.                                                         *)

\* the keys of a ledger
LedKeys(led) == {led[n].key : n \in 1..Len(led)}

\* some id of the run starts with prefix k
GeneratedWith(k) == \E n \in 1..Len(ids) : At(ids[n], 1, k)

\* C3: the placeholder ids generated during one run, by the passes of
\* preprocessVueAlpineAttributes, by preprocessUnicodeCharacters and by
\* preprocessTwigArrowFunctions, are pairwise distinct; the merge in parse
\* overwrites nothing, and the combined ledger has one entry for each id
\* generated.
C3_IdsPairwiseDistinct ==
    /\ \A a, b \in 1..Len(ids) : a # b => ids[a] # ids[b]
    /\ pc \in {"print", "done"} =>
          /\ Len(combinedReplacements) = Len(ids)
          /\ LedKeys(combinedReplacements) = {ids[n] : n \in 1..Len(ids)}

\* a finished run in which the three generators each made ids, two of them
\* entity placeholders, and the ledgers were merged
C3_Witness ==
    /\ Done
    /\ GeneratedWith(K_ARROW)
    /\ GeneratedWith(K_ALPINE_ATTR)
    /\ \E a, b \in 1..Len(ids) : a # b /\ At(ids[a], 1, K_ENTITY) /\ At(ids[b], 1, K_ENTITY)
    /\ Len(arrowFuncReplacements) > 0
    /\ Len(replacements) > 0
    /\ Len(combinedReplacements) = Len(replacements) + Len(arrowFuncReplacements)

-----------------------------------------------------------------------------
(* Namespaced attributes.                                                   *)

\* the attribute names of s with a reserved XML namespace prefix before the
\* colon: a blank, the prefix, the colon and the local name
NamespacedNames(s) ==
    {Sub(s, i, SkipClass(s, i + Len(xmlNamespaces[k]) + 1, NameCh)) :
        <<i, k>> \in {<<j, m>> \in (1..Len(s)) \X (1..Len(xmlNamespaces)) :
                        /\ j > 1
                        /\ s[j - 1] \in Space
                        /\ At(s, j, xmlNamespaces[m] \o <<":">>)
                        /\ At(s, SkipClass(s, j + Len(xmlNamespaces[m]) + 1, NameCh),
                              <<"=", DQ>>)
                        /\ SkipClass(s, j + Len(xmlNamespaces[m]) + 1, NameCh)
                              > j + Len(xmlNamespaces[m]) + 1}}

\* C4: an attribute whose name has a reserved XML namespace prefix before
\* the colon is rewritten by no pass; after every pass the text still holds
\* its name as the source text has it.
C4_NamespaceExclusion ==
    \A name \in NamespacedNames(input) : Includes(processedText, name)

-----------------------------------------------------------------------------
(* Comments.                                                                *)

\* the comments of s that start with open and end with close, delimiters
\* included
CommentsOf(s, open, close) ==
    {Sub(s, i, AfterClose(s, i + Len(open), close)) :
        i \in {j \in 1..Len(s) :
                 At(s, j, open) /\ IndexFrom(s, close, j + Len(open)) # 0}}

\* the HTML comments and the template comments of s
Comments(s) ==
    CommentsOf(s, S_HTML_OPEN, S_HTML_CLOSE)
        \cup CommentsOf(s, S_COMMENT_OPEN, S_COMMENT_CLOSE)

\* C5: a directive-like token inside an HTML comment or a template comment
\* is rewritten by no pass; after every pass the text holds each comment of
\* the source text as the source text has it.
C5_CommentExclusion ==
    \A comment \in Comments(input) : Includes(processedText, comment)

-----------------------------------------------------------------------------
(* Quotes.                                                                  *)

\* the ='value' parts of the attributes of s that are written with single
\* quotes and whose value holds a double quote (and so no single quote)
SingleQuotedWithDouble(s) ==
    {Sub(s, i, IndexFrom(s, <<SQ>>, i + 2) + 1) :
        i \in {j \in 2..Len(s) :
                 /\ At(s, j, <<"=", SQ>>)
                 /\ s[j - 1] \in ModCh \cup {"_"}
                 /\ InsideTagAt(s, j)
                 /\ IndexFrom(s, <<SQ>>, j + 2) # 0
                 /\ Includes(Sub(s, j + 2, IndexFrom(s, <<SQ>>, j + 2)), <<DQ>>)}}

\* C6: an attribute written with single quotes whose value holds a double
\* quote and no single quote is printed with its value in single quotes.
C6_QuotePreservation ==
    Done => \A quoted \in SingleQuotedWithDouble(input) : Includes(output, quoted)

-----------------------------------------------------------------------------
(* Character references in directive attribute values.                      *)

\* v holds a numeric character reference
HoldsNumericReference(v) == \E j \in 1..Len(v) : NumericRefMatch(v, j) # 0

\* the ="value" parts of the directive attributes of s whose value holds a
\* numeric character reference
DirectiveValuesWithReference(s) ==
    {Sub(s, p[2], IndexFrom(s, <<DQ>>, p[2] + 2) + 1) :
        p \in {q \in (1..Len(s)) \X (1..(Len(s) + 1)) :
                 /\ q[2] \in DirectiveEnds(s, q[1])
                 /\ At(s, q[2], <<"=", DQ>>)
                 /\ IndexFrom(s, <<DQ>>, q[2] + 2) # 0
                 /\ HoldsNumericReference(
                        Sub(s, q[2] + 2, IndexFrom(s, <<DQ>>, q[2] + 2)))}}

\* C7: a numeric character reference inside a directive attribute value
\* comes back from protect and restore as it was written: it is not decoded
\* and no entity placeholder is left in its place.
C7_EntityOrdering ==
    Done => \A value \in DirectiveValuesWithReference(input) : Includes(output, value)

-----------------------------------------------------------------------------
(* Embedded content whose sub-formatter throws.                             *)

\* the calls of the sub-formatters that threw
ThrownCalls == {n \in 1..Len(emb) : emb[n].threw}

-----------------------------------------------------------------------------
(* Inputs without foreign syntax.                                           *)

\* s[j] lies outside the quoted values of the tag it is in: the quotes
\* between the < of the tag and j pair up
OutsideQuotesAt(s, j) ==
    Cardinality({k \in LastIndexOf(s, j - 1, <<"<">>)..(j - 1) : s[k] \in {DQ, SQ}}) % 2 = 0

\* s has a directive attribute: a directive name that starts after white
\* space inside a tag, outside the quoted values
HasDirectiveAttribute(s) ==
    \E j \in 2..Len(s) :
        /\ s[j - 1] \in Space
        /\ InsideTagAt(s, j)
        /\ OutsideQuotesAt(s, j)
        /\ DirectiveEnds(s, j) # {}

\* s has a template block or a template comment inside a tag
HasInTagBlock(s) ==
    \E j \in 1..Len(s) :
        /\ At(s, j, S_BLOCK_OPEN) \/ At(s, j, S_COMMENT_OPEN)
        /\ InsideTagAt(s, j)

\* s has a numeric or a named character reference
HasCharacterReference(s) ==
    \E j \in 1..Len(s) : NumericEntityMatch(s, j) # 0 \/ NamedEntityMatch(s, j) # 0

\* s holds no foreign-syntax fragment: no directive attribute, no script or
\* style element, no v-pre element, no template block inside a tag, no
\* ${...}, no arrow function and no character reference
NoForeignSyntax(s) ==
    /\ ~HasDirectiveAttribute(s)
    /\ \A j \in 1..Len(s) : EmbeddedMatch(s, j) = 0 /\ VPreMatch(s, j) = 0
    /\ ~HasInTagBlock(s)
    /\ ~Includes(s, <<"$", "{">>)
    /\ ~Includes(s, <<"=", ">">>)
    /\ ~HasCharacterReference(s)

\* C9: for an input that holds no foreign-syntax fragment the passes leave
\* the text as it is and the merged ledger is empty.
C9_RoundTripIdempotence ==
    (pc \in {"print", "done"} /\ NoForeignSyntax(input)) =>
        /\ processedText = input
        /\ combinedReplacements = <<>>

-----------------------------------------------------------------------------
(* Id-shaped tokens of the source text.                                     *)

\* the prefixes of the ids the printers look for
IdPrefixes ==
    {K_SCRIPT, K_STYLE, K_MIXED_ATTR, K_ALPINE_ATTR, K_TWIG_COND, K_TWIG_COMMENT,
     K_TWIG_ATTR, K_VUE_VALUE, K_VUE_EXPR, K_VPRE}

\* the id-shaped tokens of s: a prefix and digits, not part of a longer word
IdShapedTokens(s) ==
    {Sub(s, p[1], SkipClass(s, p[1] + Len(p[2]), Digit)) :
        p \in {q \in (1..Len(s)) \X IdPrefixes :
                 /\ At(s, q[1], q[2])
                 /\ q[1] = 1 \/ s[q[1] - 1] \notin WordDash
                 /\ SkipClass(s, q[1] + Len(q[2]), Digit) > q[1] + Len(q[2])}}

\* C10: an id-shaped token of the source text that is no key of the ledger
\* is printed as it is; it is never dropped from the printed text.
C10_LedgerMissFallback ==
    Done =>
        \A token \in IdShapedTokens(input) :
            ~LedHas(combinedReplacements, token) => Includes(output, token)

-----------------------------------------------------------------------------
(* C11: the sequence counter.                                              *)

\* the number an id carries: its digits
IdNumber(id) == SelectSeq(id, LAMBDA c : c \in Digit)

\* C11: within one run every placeholder id takes its number from one shared
\* counter that only increases, so no two ids of a run carry the same number.
C11_SingleSequenceCounter ==
    \A a, b \in 1..Len(ids) : a # b => IdNumber(ids[a]) # IdNumber(ids[b])

-----------------------------------------------------------------------------
(* C12: run isolation.                                                     *)

\* the invocation has its sanitized text and its ledger
Parsed(run) == run.pc \in {"print", "done"}

-----------------------------------------------------------------------------
(* C13: ledger entries are written once.                                   *)

\* every entry of the map `before` is in the map `after`, with its payload
Keeps(before, after) ==
    \A n \in 1..Len(before) :
        /\ LedHas(after, before[n].key)
        /\ LedGet(after, before[n].key) = before[n].val

\* the entries preprocessUnicodeCharacters hands to the merge of the third
\* pass
EntityEntries ==
    preprocessUnicodeCharacters(PassState(processedText, 0, <<>>, ids, emb)).led

\* C13: a step of the run keeps every entry of every map with its payload:
\* the passes keep the entries of replacements, the merge of the entity
\* entries and the merge of parse keep the entries of both maps they merge,
\* and every insertion so far has made an entry of its own.
C13_LedgerWriteOnce ==
    [][/\ Keeps(replacements, replacements')
       /\ Keeps(arrowFuncReplacements, arrowFuncReplacements')
       /\ Keeps(combinedReplacements, combinedReplacements')
       /\ pc = "entity" => Keeps(EntityEntries, replacements')
       /\ pc = "merge" => /\ Keeps(replacements, combinedReplacements')
                          /\ Keeps(arrowFuncReplacements, combinedReplacements')
       /\ Len(replacements') + Len(arrowFuncReplacements') = Len(ids')]_vars

\* both merges have run on maps that held entries: the ledger holds an
\* entry of the first pass, an entity entry and an arrow function entry
C13_Witness ==
    /\ pc = "print"
    /\ \E a, b, c \in 1..Len(combinedReplacements) :
          /\ At(combinedReplacements[a].key, 1, K_ALPINE_ATTR)
          /\ At(combinedReplacements[b].key, 1, K_ENTITY)
          /\ At(combinedReplacements[c].key, 1, K_ARROW)
          /\ a < b
          /\ b < c

-----------------------------------------------------------------------------
(* C14: placeholders are not matched again.                                *)

\* the attribute assignments of s whose value is a key of led, from the
\* equals sign on
PlaceholderAssignments(s, led) ==
    {a \in {<<"=", q>> \o led[n].key \o <<q>> : n \in 1..Len(led), q \in {DQ, SQ}} :
        Includes(s, a)}

\* C14: the seventh pass leaves every assignment whose value is a
\* placeholder as it is and stores no placeholder as a payload, and the
\* eighth pass leaves every assignment whose value is a placeholder as it
\* is, the single-quoted ones the seventh pass wrote included.
C14_NoPlaceholderRematch ==
    [][(pc \in {"values", "quotes"}) =>
           /\ \A a \in PlaceholderAssignments(processedText, replacements) :
                  Includes(processedText', a)
           /\ \A n \in (Len(replacements) + 1)..Len(replacements') :
                  ~LedHas(replacements', replacements'[n].val.text)]_vars

-----------------------------------------------------------------------------
(* C15: inline expression protection.                                      *)

\* the expressions of s: what stands between ${ and the next }
Expressions(s) ==
    {Sub(s, j + 2, VueExpressionMatch(s, j) - 1) :
        j \in {k \in 1..Len(s) : VueExpressionMatch(s, k) # 0}}

\* x holds white space
HoldsWhiteSpace(x) == \E k \in 1..Len(x) : x[k] \in Space

RECURSIVE CollapseOutside(_, _, _)
\* x from character i on with every run of white space outside string
\* literals made one blank; q is the quote of the open literal, "" outside
CollapseOutside(x, i, q) ==
    IF i > Len(x) THEN <<>>
    ELSE IF q # "" THEN <<x[i]>> \o CollapseOutside(x, i + 1, IF x[i] = q THEN "" ELSE q)
    ELSE IF x[i] \in {DQ, SQ} THEN <<x[i]>> \o CollapseOutside(x, i + 1, x[i])
    ELSE IF x[i] \in Space THEN <<" ">> \o CollapseOutside(x, SkipClass(x, i, Space), "")
    ELSE <<x[i]>> \o CollapseOutside(x, i + 1, "")

\* the entries the step adds to replacements
AddedEntries == (Len(replacements) + 1)..Len(replacements')

\* the step of the ${...} pass stores, for every expression with white space,
\* one placeholder whose payload is ${ + payloadOf(expression) + }, leaves no
\* expression in the text, stores payloads whose white space outside string
\* literals is single blanks; the printers emit each payload as it is
ExpressionProtection(payloadOf(_)) ==
    /\ pc = "expressions" =>
          /\ \A x \in Expressions(processedText) :
                 HoldsWhiteSpace(x) =>
                     \E n \in AddedEntries :
                         /\ At(replacements'[n].key, 1, K_VUE_EXPR)
                         /\ replacements'[n].val = StrVal(<<"$", "{">> \o payloadOf(x) \o <<"}">>)
                         /\ Includes(processedText', replacements'[n].key)
          /\ Expressions(processedText') = {}
          /\ Cardinality(AddedEntries) =
                 Cardinality({k \in 1..Len(processedText) : VueExpressionMatch(processedText, k) # 0})
          /\ \A n \in AddedEntries :
                 CollapseOutside(replacements'[n].val.text, 1, "") = replacements'[n].val.text
    /\ pc = "print" =>
          \A n \in 1..Len(combinedReplacements) :
              At(combinedReplacements[n].key, 1, K_VUE_EXPR) =>
                  Includes(output', combinedReplacements[n].val.text)

\* x with its white space outside string literals collapsed
Collapsed(x) == CollapseOutside(x, 1, "")

\* x with its white space outside string literals collapsed and the blanks
\* at both ends removed
CollapsedAndTrimmed(x) == Trim(CollapseOutside(x, 1, ""))

\* C15 as it is stated: the payload of the placeholder is ${ + the
\* expression with white space outside string literals collapsed to single
\* spaces + }.
C15_ExpressionCollapsed == [][ExpressionProtection(Collapsed)]_vars

ExpressionsStoredCollapsedAndTrimmed ==
    [][pc # "print" => ExpressionProtection(CollapsedAndTrimmed)]_vars

-----------------------------------------------------------------------------
(* C16: restoration of the blocks inside a tag.                            *)

\* the entries of led made for a conditional block or a comment block
\* inside a tag
InTagEntries(led) ==
    {n \in 1..Len(led) : At(led[n].key, 1, K_TWIG_COND) \/ At(led[n].key, 1, K_TWIG_COMMENT)}

\* C16: for an attribute whose name is the placeholder of a conditional
\* block or a comment block inside a tag, and is in the ledger, the
\* attribute printer returns the block text and nothing else: the printed
\* text holds the block, not the placeholder, and no equals sign, quote or
\* dummy value after the block.
C16_InTagRestoration ==
    pc \in {"print", "done"} =>
        \A n \in InTagEntries(combinedReplacements) :
            /\ printAttribute(combinedReplacements[n].key, TRUE, TRUE, <<"1">>, <<"1">>,
                              combinedReplacements)
                   = combinedReplacements[n].val.text
            /\ Done =>
                   /\ Includes(output, combinedReplacements[n].val.text)
                   /\ ~Includes(output, combinedReplacements[n].key)
                   /\ ~Includes(output, combinedReplacements[n].val.text \o <<"=">>)

\* a run has printed a tag that held a comment block and two conditional
\* blocks
C16_Witness ==
    /\ Done
    /\ \E a, b \in InTagEntries(combinedReplacements) :
          /\ At(combinedReplacements[a].key, 1, K_TWIG_COMMENT)
          /\ At(combinedReplacements[b].key, 1, K_TWIG_COND)
          /\ Includes(processedText, combinedReplacements[a].key \o <<"=", DQ, "1", DQ>>)
          /\ Includes(processedText, combinedReplacements[b].key \o <<"=", DQ, "1", DQ>>)
          /\ Includes(input, combinedReplacements[a].val.text)
          /\ Includes(input, combinedReplacements[b].val.text)
    /\ output = input

-----------------------------------------------------------------------------
(* C17: directive and style attribute values.                              *)

\* what makes a value one that the formatter must not touch
SpecialTokens ==
    {<<SQ>>, <<"=", "=", "=">>, <<"|", "|">>, <<";">>, <<":">>,
     <<"{">>, <<"}">>, <<"[">>, <<"]">>}

\* the name is x-*, @event, :prop or style
IsProtectedName(name) ==
    \/ At(name, 1, <<"x", "-">>)
    \/ At(name, 1, <<"@">>)
    \/ At(name, 1, <<":">>)
    \/ name = <<"s", "t", "y", "l", "e">>

\* the position after the attribute name that starts at k
NameStop(s, k) == SkipNotIn(s, k, Space \cup {"=", ">"})

\* the position after the assignment name="value" that starts at k with a
\* protected name and a value holding a special token, or 0
ProtectedAssignmentEnd(s, k, n) ==
    IF /\ k > 1
       /\ s[k - 1] \in Space
       /\ n > k
       /\ IsProtectedName(Sub(s, k, n))
       /\ At(s, n, <<"=", DQ>>)
       /\ IndexFrom(s, <<DQ>>, n + 2) # 0
       /\ \E t \in SpecialTokens : Includes(Sub(s, n + 2, IndexFrom(s, <<DQ>>, n + 2)), t)
    THEN IndexFrom(s, <<DQ>>, n + 2) + 1
    ELSE 0

\* the assignments of s that the formatter must give back as they are
ProtectedAssignments(s) ==
    {Sub(s, k, ProtectedAssignmentEnd(s, k, NameStop(s, k))) :
        k \in {j \in 1..Len(s) : ProtectedAssignmentEnd(s, j, NameStop(s, j)) # 0}}

\* C17: every double-quoted directive attribute (x-*, @event, :prop) or
\* style attribute of the input whose value holds a single quote, ===, ||,
\* a semicolon, a colon, a brace or a bracket is printed with its name and
\* its value as they were.
C17_DirectiveValuesSurvive ==
    Done => \A a \in ProtectedAssignments(input) : Includes(output, a)

-----------------------------------------------------------------------------
(* C18.  The names of an entry of the option, read off the places of its   *)
(* commas.                                                                 *)

Commas(csv) == {i \in 1..Len(csv) : csv[i] = ","}

\* the place of the k-th comma; 0 before the first name, Len + 1 after the last
CommaAt(csv, k) ==
    IF k = 0 THEN 0
    ELSE IF k > Cardinality(Commas(csv)) THEN Len(csv) + 1
    ELSE CHOOSE i \in Commas(csv) : Cardinality({j \in Commas(csv) : j <= i}) = k

\* the k-th name of the entry, k from 0, trimmed
TagName(csv, k) == Trim(SubSeq(csv, CommaAt(csv, k) + 1, CommaAt(csv, k + 1) - 1))

\* the trimmed names after the first
RemainingNames(csv) == [k \in 1..Cardinality(Commas(csv)) |-> TagName(csv, k)]

\* the last entry of the option with the first name of entry n
LastWithName(n) ==
    CHOOSE m \in 1..Len(twigMultiTags) :
        /\ TagName(twigMultiTags[m], 0) = TagName(twigMultiTags[n], 0)
        /\ \A l \in (m + 1)..Len(twigMultiTags) :
               TagName(twigMultiTags[l], 0) # TagName(twigMultiTags[n], 0)

Configured == pc # "config"

\* C18: for every entry of twigMultiTags the configuration maps the trimmed
\* first name to the trimmed remaining names, in their order, of the last
\* entry with that first name; the keys are the first names and each is a
\* key once.
C18_MultiTagConfig ==
    Configured =>
        /\ \A n \in 1..Len(twigMultiTags) :
               \E e \in 1..Len(multiTagConfig) :
                   /\ multiTagConfig[e].key = TagName(twigMultiTags[n], 0)
                   /\ multiTagConfig[e].val = RemainingNames(twigMultiTags[LastWithName(n)])
        /\ \A e \in 1..Len(multiTagConfig) :
               \E n \in 1..Len(twigMultiTags) :
                   multiTagConfig[e].key = TagName(twigMultiTags[n], 0)
        /\ \A e, f \in 1..Len(multiTagConfig) :
               multiTagConfig[e].key = multiTagConfig[f].key => e = f

\* the same property of the options without an entry named __proto__
MultiTagConfigOfOtherNames ==
    (Configured /\ \A n \in 1..Len(twigMultiTags) : TagName(twigMultiTags[n], 0) # S_PROTO)
        => C18_MultiTagConfig

-----------------------------------------------------------------------------
(* C19.  The conditional blocks of one tag, told from the places of the    *)
(* markers.                                                                *)

\* the tags the fifth pass works on: not inside a Twig comment, holding {% or {#
ProcessedTags(s) ==
    {i \in 1..Len(s) :
        /\ TagMatch(s, i) # 0
        /\ ~InTwigCommentAt(s, i)
        /\ \/ Includes(Sub(s, i + 1, TagMatch(s, i) - 1), S_BLOCK_OPEN)
           \/ Includes(Sub(s, i + 1, TagMatch(s, i) - 1), S_COMMENT_OPEN)}

\* the pass state on entry to the step of the conditional blocks of tag i
ConditionalInput(s, i) ==
    CommentStep(PassState(Sub(s, i + 1, TagMatch(s, i) - 1),
                          replacementCounter, replacements, ids, emb))

IfOpens(c, a, b) == {r \in (a + 1)..(b - 1) : At(c, r, S_IF)}

IfCloses(c, a, b) == {r \in (a + 1)..b : At(c, r, S_ENDIF)}

\* the closing markers that bring the depth of the block opened at p to zero
BalancingCloses(c, p) ==
    {q \in IfCloses(c, p, Len(c)) :
        Cardinality(IfCloses(c, p, q)) = Cardinality(IfOpens(c, p, q)) + 1}

\* the position after the own closing marker of the block opened at p, 0 if none
OwnCloseEnd(c, p) ==
    IF BalancingCloses(c, p) = {} THEN 0
    ELSE MinOf(BalancingCloses(c, p)) + Len(S_ENDIF)

InsideBlock(blocks, k) ==
    \E n \in 1..Len(blocks) : blocks[n].start < k /\ k < blocks[n].end

\* the quote characters before p that are not inside a block
QuotesBefore(c, blocks, p) ==
    SelectSeq([k \in 1..(p - 1) |-> k],
              LAMBDA k : c[k] \in {DQ, SQ} /\ ~InsideBlock(blocks, k)
                         /\ \A n \in 1..Len(blocks) : blocks[n].start # k)

RECURSIVE OpenQuote(_, _, _, _)
\* the quote that is open after the quote characters at the places qs[n..]
OpenQuote(c, qs, n, q) ==
    IF n > Len(qs) THEN q
    ELSE OpenQuote(c, qs, n + 1,
                   IF q = "" THEN c[qs[n]] ELSE IF c[qs[n]] = q THEN "" ELSE q)

OutsideQuotes(c, blocks, p) == OpenQuote(c, QuotesBefore(c, blocks, p), 1, "") = ""

\* the key stored for block n of `count` blocks: the blocks are replaced
\* from the last to the first
BlockKey(before, after, count, n) == after.led[Len(before.led) + count - n + 1].key

RECURSIVE Spliced(_, _, _, _, _, _)
\* c from position `from` on with the blocks n.. replaced by key="1"
Spliced(c, blocks, before, after, n, from) ==
    IF n > Len(blocks) THEN From(c, from)
    ELSE Sub(c, from, blocks[n].start)
             \o BlockKey(before, after, Len(blocks), n) \o <<"=", DQ, "1", DQ>>
             \o Spliced(c, blocks, before, after, n + 1, blocks[n].end)

\* the blocks found in c are the balanced blocks that start outside quotes
BalancedBlocks(c, blocks) ==
    /\ \A n \in 1..Len(blocks) :
          /\ At(c, blocks[n].start, S_IF)
          /\ OwnCloseEnd(c, blocks[n].start) # 0
          /\ blocks[n].end = OwnCloseEnd(c, blocks[n].start)
          /\ OutsideQuotes(c, blocks, blocks[n].start)
    /\ \A p \in IfOpens(c, 0, Len(c) + 1) :
          (/\ OutsideQuotes(c, blocks, p)
           /\ ~InsideBlock(blocks, p)
           /\ OwnCloseEnd(c, p) # 0)
              => \E n \in 1..Len(blocks) : blocks[n].start = p
    /\ \A m, n \in 1..Len(blocks) : m < n => blocks[m].end <= blocks[n].start

\* each block is replaced by one assignment, stored under a fresh key with
\* the text of the block, and nothing else of the tag changes
BlocksReplaced(c, blocks, before, after) ==
    /\ Len(after.led) = Len(before.led) + Len(blocks)
    /\ Keeps(before.led, after.led)
    /\ \A n \in 1..Len(blocks) :
          /\ At(BlockKey(before, after, Len(blocks), n), 1, K_TWIG_COND)
          /\ ~LedHas(before.led, BlockKey(before, after, Len(blocks), n))
          /\ LedGet(after.led, BlockKey(before, after, Len(blocks), n))
                 = StrVal(Sub(c, blocks[n].start, blocks[n].end))
    /\ after.out = Spliced(c, blocks, before, after, 1, 1)

ConditionalIsolation(before) ==
    /\ BalancedBlocks(before.out, IfBlocks(before.out))
    /\ BlocksReplaced(before.out, IfBlocks(before.out), before, ConditionalStep(before))

\* every block of the tag is in the ledger the pass leaves behind
BlocksStored(c, blocks, led) ==
    \A n \in 1..Len(blocks) :
        \E e \in 1..Len(led) :
            /\ At(led[e].key, 1, K_TWIG_COND)
            /\ led[e].val = StrVal(Sub(c, blocks[n].start, blocks[n].end))

\* C19: in every tag the fifth pass works on, the conditional blocks found
\* are those that start outside quotes and end after the closing marker that
\* balances them by depth, a nested pair being part of the block; they are
\* pairwise disjoint; the step replaces each by one <placeholder>="1" whose
\* ledger payload is the exact text of the block and leaves the rest of the
\* tag as it was; the pass leaves these entries in the ledger.
C19_ConditionalIsolation ==
    [][pc = "intag" =>
          \A i \in ProcessedTags(processedText) :
              /\ ConditionalIsolation(ConditionalInput(processedText, i))
              /\ BlocksStored(ConditionalInput(processedText, i).out,
                              IfBlocks(ConditionalInput(processedText, i).out),
                              replacements')]_vars

\* a tag with a block that holds a nested pair and with a conditional
\* marker inside a quoted value has been through the pass
C19_Witness ==
    /\ pc = "names"
    /\ \E e \in 1..Len(replacements) :
          /\ At(replacements[e].key, 1, K_TWIG_COND)
          /\ Cardinality(IfOpens(replacements[e].val.text, 0,
                                 Len(replacements[e].val.text))) >= 2
    /\ \E j \in 2..Len(input) :
          /\ At(input, j, S_IF)
          /\ input[j - 1] = DQ
          /\ OwnCloseEnd(input, j) # 0
          /\ At(input, OwnCloseEnd(input, j), <<DQ>>)
          /\ ~Includes(processedText, S_IF)

-----------------------------------------------------------------------------
(* C20.  Blocks that are not closed.                                       *)

\* the comment openings of the tag content c with no #} after them
UnclosedComments(c) ==
    {p \in 1..Len(c) : At(c, p, S_COMMENT_OPEN) /\ IndexFrom(c, S_COMMENT_CLOSE, p + 2) = 0}

\* the conditional openings of c with no balancing closing marker
UnclosedIfs(c) == {p \in 1..Len(c) : At(c, p, S_IF) /\ OwnCloseEnd(c, p) = 0}

\* the opening tags of s that carry v-pre and start no match of the v-pre
\* pattern, outside every match of it
UnclosedVPres(s) ==
    {i \in 1..Len(s) :
        /\ At(s, i, <<"<">>)
        /\ NameEnd(s, i + 1) # 0
        /\ SkipNotIn(s, i + 1, {">"}) <= Len(s)
        /\ HasVPre(s, i + 2, SkipNotIn(s, i + 1, {">"}))
        /\ VPreMatch(s, i) = 0
        /\ \A j \in 1..(i - 1) : VPreMatch(s, j) <= i}

\* the region of the opening at p: up to the next block that is found, or
\* to the end of the text
RegionEnd(c, starts, p) ==
    IF {k \in starts : k > p} = {} THEN Len(c) + 1 ELSE MinOf({k \in starts : k > p})

BlockStarts(blocks) == {blocks[n].start : n \in 1..Len(blocks)}

Region(c, blocks, p) == Sub(c, p, RegionEnd(c, BlockStarts(blocks), p))

\* the entries a step adds hold the blocks it found and nothing else
OnlyBlocksStored(c, blocks, before, after) ==
    /\ Len(after.led) = Len(before.led) + Len(blocks)
    /\ \A e \in (Len(before.led) + 1)..Len(after.led) :
          \E n \in 1..Len(blocks) :
              after.led[e].val = StrVal(Sub(c, blocks[n].start, blocks[n].end))

\* the step from `before` to `after` that found `blocks` made no block of
\* the opening at p, kept the characters of its region and stored nothing
\* of it
LeftUnrewritten(c, blocks, before, after, p) ==
    /\ \A n \in 1..Len(blocks) : ~(blocks[n].start <= p /\ p < blocks[n].end)
    /\ Includes(after.out, Region(c, blocks, p))
    /\ OnlyBlocksStored(c, blocks, before, after)

\* the pass state on entry to the step of the comment blocks of tag i
CommentInput(s, i) ==
    PassState(Sub(s, i + 1, TagMatch(s, i) - 1), replacementCounter, replacements, ids, emb)

\* the v-pre pass on the opening tag at i that has no closing tag
VPreLeft(s, i) ==
    /\ Includes(processedText',
                Sub(s, i, RegionEnd(s, {j \in 1..Len(s) : VPreMatch(s, j) # 0}, i)))
    /\ \A e \in (Len(replacements) + 1)..Len(replacements') :
          ~Includes(replacements'[e].val.text,
                    Sub(s, i, SkipNotIn(s, i + 1, {">"}) + 1))

\* the steps that isolate the blocks of tag i leave the unclosed ones
IsolationLeaves(s, i) ==
    /\ \A p \in UnclosedComments(CommentInput(s, i).out) :
          LeftUnrewritten(CommentInput(s, i).out, CommentBlocks(CommentInput(s, i).out),
                          CommentInput(s, i), ConditionalInput(s, i), p)
    /\ \A p \in UnclosedIfs(ConditionalInput(s, i).out) :
          LeftUnrewritten(ConditionalInput(s, i).out, IfBlocks(ConditionalInput(s, i).out),
                          ConditionalInput(s, i), ConditionalStep(ConditionalInput(s, i)), p)

\* the region of an unclosed block of tag i is in the text the pass leaves
PassLeaves(s, i) ==
    /\ \A p \in UnclosedComments(CommentInput(s, i).out) :
          Includes(processedText',
                   Region(CommentInput(s, i).out, CommentBlocks(CommentInput(s, i).out), p))
    /\ \A p \in UnclosedIfs(ConditionalInput(s, i).out) :
          Includes(processedText',
                   Region(ConditionalInput(s, i).out, IfBlocks(ConditionalInput(s, i).out), p))

\* C20 as stated: a conditional block or comment block of a tag without a
\* matching close, and a v-pre element without a closing tag, is left by
\* the pass as it was: no placeholder, no ledger entry, and the characters
\* of its region are in the text the pass hands on.
C20_UnterminatedLeft ==
    [][/\ pc = "vpre" => \A i \in UnclosedVPres(processedText) : VPreLeft(processedText, i)
       /\ pc = "intag" =>
              \A i \in ProcessedTags(processedText) :
                  /\ IsolationLeaves(processedText, i)
                  /\ PassLeaves(processedText, i)]_vars

\* C20 amended: the step that isolates the blocks makes no block of an
\* opening without a matching close, keeps the characters of its region (up
\* to the next complete block or the end of the tag) and stores nothing of
\* it; the v-pre pass does the same for an element without closing tag.
C20_IsolationLeavesUnterminated ==
    [][/\ pc = "vpre" => \A i \in UnclosedVPres(processedText) : VPreLeft(processedText, i)
       /\ pc = "intag" =>
              \A i \in ProcessedTags(processedText) : IsolationLeaves(processedText, i)]_vars

\* a run with an unclosed conditional in a tag and an unclosed v-pre element
\* is past the fifth pass with both openings in its text and an attribute
\* value after the conditional opening rewritten
C20_Witness ==
    /\ pc = "names"
    /\ UnclosedVPres(input) # {}
    /\ UnclosedVPres(processedText) # {}
    /\ \E i \in 1..Len(input) :
          /\ TagMatch(input, i) # 0
          /\ UnclosedIfs(Sub(input, i + 1, TagMatch(input, i) - 1)) # {}
    /\ Includes(processedText, S_IF)
    /\ \E e \in 1..Len(replacements) : At(replacements[e].key, 1, K_TWIG_ATTR)

-----------------------------------------------------------------------------
(* C21.  The quote character stored with a directive value.                *)

\* the values the seventh pass replaces: the matches of its pattern whose
\* value is not a twig-attr-value placeholder
ReisolatedValues(s) ==
    {i \in 1..Len(s) :
        /\ DirectiveValueMatch(s, i) # 0
        /\ ~IsTwigAttrPlaceholder(Sub(s, DirectiveValueParts(s, i).n + 2,
                                      DirectiveValueParts(s, i).c))}

\* C21: for every value attached to a name placeholder of the sixth pass,
\* the entry the seventh pass creates for the value stores the quote
\* character that delimits the value.
C21_OriginalQuoteRecorded ==
    [][pc = "values" =>
          \A i \in ReisolatedValues(processedText) :
              \E e \in AddedEntries :
                  /\ At(replacements'[e].key, 1, K_VUE_VALUE)
                  /\ replacements'[e].val.text
                        = Sub(processedText, DirectiveValueParts(processedText, i).n + 2,
                              DirectiveValueParts(processedText, i).c)
                  /\ replacements'[e].val.quote
                        = processedText[DirectiveValueParts(processedText, i).n + 1]]_vars

-----------------------------------------------------------------------------
(* C22.  Escaped quotes and the scanners.                                  *)

\* the character at k stands after an odd number of backslashes
Escaped(x, k) == (k - 1 - SkipBack(x, k - 1, {BS})) % 2 = 1

\* x ends with a quote character that is escaped
EndsWithEscapedQuote(x) == Len(x) > 0 /\ x[Len(x)] \in {DQ, SQ} /\ Escaped(x, Len(x))

\* x without its last character
Front(x) == SubSeq(x, 1, Len(x) - 1)

\* the quote characters before p that are not escaped and not inside a block
UnescapedQuotesBefore(c, blocks, p) ==
    SelectSeq([k \in 1..(p - 1) |-> k],
              LAMBDA k : c[k] \in {DQ, SQ} /\ ~Escaped(c, k) /\ ~InsideBlock(blocks, k))

\* every block starts where no quote is open, escaped quotes not counting
BlocksOutsideQuotes(c, blocks) ==
    \A n \in 1..Len(blocks) :
        OpenQuote(c, UnescapedQuotesBefore(c, blocks, blocks[n].start), 1, "") = ""

\* C22: in every scanner that tracks quotes, a quote character preceded by
\* an escape character does not change the quote state, and a brace seen
\* while a quote is open does not change the brace depth: the state after a
\* text that ends with an escaped quote is the state before that quote, the
\* depth after a brace inside quotes is the depth before it, and the block
\* scanners open no block inside a quoted value that holds an escaped quote.
C22_EscapedQuotesKeepState ==
    /\ (pc = "normalized" /\ EndsWithEscapedQuote(input)) =>
          scanner.stringChar = NormalizerQuote(Front(input), 1, "", FALSE)
    /\ (pc = "parsed" /\ EndsWithEscapedQuote(input)) =>
          /\ scanner.inSingleQuote = ComplexScan(Front(input), 1, ScannerStart).inSingleQuote
          /\ scanner.inDoubleQuote = ComplexScan(Front(input), 1, ScannerStart).inDoubleQuote
    /\ (/\ pc = "parsed"
        /\ Len(input) > 0
        /\ input[Len(input)] \in {"{", "}"}
        /\ \/ ComplexScan(Front(input), 1, ScannerStart).inSingleQuote
           \/ ComplexScan(Front(input), 1, ScannerStart).inDoubleQuote) =>
          scanner.depth = ComplexScan(Front(input), 1, ScannerStart).depth
    /\ pc = "isolated" =>
          /\ BlocksOutsideQuotes(input, CommentBlocks(input))
          /\ BlocksOutsideQuotes(CommentStep(PassState(input, 0, <<>>, <<>>, <<>>)).out,
                                 IfBlocks(CommentStep(PassState(input, 0, <<>>, <<>>, <<>>)).out))

\* the part of C22 about the expression normalizer
NormalizerKeepsState ==
    (pc = "normalized" /\ EndsWithEscapedQuote(input)) =>
        scanner.stringChar = NormalizerQuote(Front(input), 1, "", FALSE)

\* the part of C22 about the braces seen by parseComplexAttributeValue
BracesInQuotesKeepDepth ==
    (/\ pc = "parsed"
     /\ Len(input) > 0
     /\ input[Len(input)] \in {"{", "}"}
     /\ \/ ComplexScan(Front(input), 1, ScannerStart).inSingleQuote
        \/ ComplexScan(Front(input), 1, ScannerStart).inDoubleQuote) =>
        scanner.depth = ComplexScan(Front(input), 1, ScannerStart).depth

\* the part of C22 about the quote state of parseComplexAttributeValue
ValueScannerKeepsState ==
    (pc = "parsed" /\ EndsWithEscapedQuote(input)) =>
        /\ scanner.inSingleQuote = ComplexScan(Front(input), 1, ScannerStart).inSingleQuote
        /\ scanner.inDoubleQuote = ComplexScan(Front(input), 1, ScannerStart).inDoubleQuote

\* the part of C22 about the block scanners of the fifth pass
BlockScannersKeepState ==
    pc = "isolated" =>
        /\ BlocksOutsideQuotes(input, CommentBlocks(input))
        /\ BlocksOutsideQuotes(CommentStep(PassState(input, 0, <<>>, <<>>, <<>>)).out,
                               IfBlocks(CommentStep(PassState(input, 0, <<>>, <<>>, <<>>)).out))

-----------------------------------------------------------------------------
(* C23.  The type attribute of a script element, read as an attribute: the *)
(* name type after white space, an equals sign, and a value in quotes or   *)
(* without quotes.                                                         *)

\* the position of the first character of the value of an attribute named
\* type whose name starts at p, 0 if there is none
TypeValueStart(a, p) ==
    IF /\ AtCI(a, p, S_TYPE)
       /\ p > 1
       /\ a[p - 1] \in Space
       /\ At(a, SkipClass(a, p + Len(S_TYPE), Space), <<"=">>)
       /\ SkipClass(a, SkipClass(a, p + Len(S_TYPE), Space) + 1, Space) <= Len(a)
    THEN SkipClass(a, SkipClass(a, p + Len(S_TYPE), Space) + 1, Space)
    ELSE 0

\* the value that starts at v: between quotes, or up to the next white space
AttributeValueAt(a, v) ==
    IF a[v] \in {DQ, SQ}
    THEN Sub(a, v + 1, SkipNotIn(a, v + 1, {a[v]}))
    ELSE Sub(a, v, SkipNotIn(a, v, Space))

TypeAttributes(a) == {p \in 1..Len(a) : TypeValueStart(a, p) # 0}

\* the script with the attributes a is JavaScript: it has no type attribute,
\* or its type is one of the three
ScriptIsJavaScript(a) ==
    \/ TypeAttributes(a) = {}
    \/ ToLower(AttributeValueAt(a, TypeValueStart(a, MinOf(TypeAttributes(a)))))
          \in {S_TEXT_JS, S_APP_JS, S_MODULE}

\* the script and style elements the fourth pass works on
EmbeddedElements(s) ==
    {i \in 1..Len(s) :
        /\ EmbeddedMatch(s, i) # 0
        /\ \A j \in 1..(i - 1) : EmbeddedMatch(s, j) <= i}

\* the record of the sub-formatter call r is that of the element at i: its
\* content is replaced by the one placeholder r.id after the opening tag as
\* it was, and the sub-formatter is called as the content type allows
IsolatedAs(s, i, m, r) ==
    /\ r.content = Sub(s, m.g + 1, m.c)
    /\ Includes(processedText', Sub(s, i, m.g + 1) \o r.id \o Sub(s, m.c, m.e))
    /\ LedHas(replacements', r.id)
    /\ r.called =>
          \/ ToLower(Sub(s, i + 1, m.n)) = S_STYLE
          \/ ToLower(Sub(s, i + 1, m.n)) = S_SCRIPT /\ ScriptIsJavaScript(Sub(s, m.n, m.g))
    /\ (ToLower(Sub(s, i + 1, m.n)) = S_SCRIPT /\ ~ScriptIsJavaScript(Sub(s, m.n, m.g))) =>
          ~r.called
    /\ Trim(Sub(s, m.g + 1, m.c)) = <<>> => ~r.called
    /\ ~r.called => LedGet(replacements', r.id) = StrVal(Sub(s, m.g + 1, m.c))

\* C23: the fourth pass replaces the content of every script and style
\* element by one placeholder and keeps the opening tag; the JavaScript
\* sub-formatter is called only for a script without type attribute or with
\* type text/javascript, application/javascript or module; for any other
\* script type and for empty or white-space content the ledger holds the
\* content as it was and no sub-formatter is called.
C23_EmbeddedByContentType ==
    [][pc = "embedded" =>
          /\ Len(emb') = Len(emb) + Cardinality(EmbeddedElements(processedText))
          /\ \A i \in EmbeddedElements(processedText) :
                 \E e \in (Len(emb) + 1)..Len(emb') :
                     IsolatedAs(processedText, i, EmbeddedParts(processedText, i), emb'[e])]_vars

\* an unquoted value of a type attribute is in the attributes a
UnquotedType(a) ==
    \E p \in TypeAttributes(a) : a[TypeValueStart(a, p)] \notin {DQ, SQ}

\* the same property of the texts whose type attributes are in quotes
EmbeddedByQuotedContentType ==
    [][(pc = "embedded" /\ ~UnquotedType(processedText)) =>
          /\ Len(emb') = Len(emb) + Cardinality(EmbeddedElements(processedText))
          /\ \A i \in EmbeddedElements(processedText) :
                 \E e \in (Len(emb) + 1)..Len(emb') :
                     IsolatedAs(processedText, i, EmbeddedParts(processedText, i), emb'[e])]_vars

-----------------------------------------------------------------------------
(* C24: arrow functions inside filter calls.                               *)

S_ARROW == <<"=", ">">>

\* the opening parentheses less the closing ones in s[a..k]
ParenDepth(s, a, k) ==
    Cardinality({j \in a..k : s[j] = "("}) - Cardinality({j \in a..k : s[j] = ")"})

\* the parenthesis that closes the call whose argument starts at a, or 0
CallClose(s, a) ==
    LET closes == {q \in a..Len(s) : s[q] = ")" /\ ParenDepth(s, a, q - 1) = 0}
    IN IF closes = {} THEN 0 ELSE MinOf(closes)

\* s[a..q-1] holds an arrow that no parenthesis of the argument encloses
ArrowArgument(s, a, q) ==
    \E p \in a..(q - 2) : At(s, p, S_ARROW) /\ ParenDepth(s, a, p - 1) = 0

\* the filter calls |name( ... ) of s that are passed an arrow function
\* and are followed by no other arrow
ArrowFilterCalls(s) ==
    {i \in 1..Len(s) :
        /\ ArrowPrefixEnd(s, i) # 0
        /\ CallClose(s, ArrowPrefixEnd(s, i)) # 0
        /\ ArrowArgument(s, ArrowPrefixEnd(s, i), CallClose(s, ArrowPrefixEnd(s, i)))
        /\ ~Includes(From(s, CallClose(s, ArrowPrefixEnd(s, i))), S_ARROW)}

\* the deepest nesting of parentheses in s[a..q-1]
MaxParenDepth(s, a, q) == MaxOf({ParenDepth(s, a, k) : k \in a..(q - 1)} \cup {0})

\* t ends with e
EndsWith(t, e) == Len(t) >= Len(e) /\ SubSeq(t, Len(t) - Len(e) + 1, Len(t)) = e

S_FIRST_ARROW == K_ARROW \o <<"0">> \o US2

\* the call at i of the input, its argument in s[a..q-1]: the argument is
\* one placeholder, the first of the run, between the parentheses of the
\* call; the payload is the argument trimmed, and the printer puts it back
ArrowCallProtected(s, i, a, q) ==
    /\ EndsWith(processedText, Sub(s, i, a) \o S_FIRST_ARROW \o From(s, q))
    /\ LedHas(arrowFuncReplacements, S_FIRST_ARROW)
    /\ PayloadString(LedGet(arrowFuncReplacements, S_FIRST_ARROW)) = Trim(Sub(s, a, q))
    /\ printIdentifier(S_FIRST_ARROW, arrowFuncReplacements) = Trim(Sub(s, a, q))
    /\ EndsWith(output, Sub(s, i, a) \o Trim(Sub(s, a, q)) \o From(s, q))

\* C24: when a filter call |name( ... ) is passed an arrow function, the
\* whole text between the parentheses of the call is replaced by one
\* placeholder, the first of the run even when an arrow function without
\* parentheses stands before the call; the name of the filter and both
\* parentheses stay, the payload is the argument trimmed, and
\* printIdentifier prints the payload for the placeholder.
C24_ArrowProtection ==
    pc = "protected" =>
        \A i \in ArrowFilterCalls(input) :
            i = MinOf(ArrowFilterCalls(input)) =>
                ArrowCallProtected(input, i, ArrowPrefixEnd(input, i),
                                   CallClose(input, ArrowPrefixEnd(input, i)))

\* the same for the calls whose argument nests parentheses at most once
ArrowProtectionOfFlatCalls ==
    pc = "protected" =>
        \A i \in ArrowFilterCalls(input) :
            /\ i = MinOf(ArrowFilterCalls(input))
            /\ MaxParenDepth(input, ArrowPrefixEnd(input, i),
                             CallClose(input, ArrowPrefixEnd(input, i))) <= 1
            => ArrowCallProtected(input, i, ArrowPrefixEnd(input, i),
                                  CallClose(input, ArrowPrefixEnd(input, i)))

-----------------------------------------------------------------------------
(* C25: directive values that hold template expressions.                   *)

\* the value of the directive that is the input
DirectiveValue(s) == Sub(s, Len(S_DIRECTIVE) + 1, Len(s))

\* the nested marker of the expression with index n
NestedMarker(n) == K_TWIG_EXPR \o Digits(n) \o US2

\* the next part of a value read from i on: the text up to the next {{,
\* the expression up to the }} after it, and where the part ends
NextPart(v, i, o, c) ==
    [t |-> IF o = 0 THEN From(v, i) ELSE Sub(v, i, o),
     e |-> IF c = 0 THEN <<>> ELSE Trim(Sub(v, o + 2, c)),
     last |-> o = 0,
     ok |-> IF o = 0 THEN ~Includes(From(v, i), S_EXPR_CLOSE)
            ELSE /\ c # 0
                 /\ ~Includes(Sub(v, i, o), S_EXPR_CLOSE)
                 /\ ~Includes(Sub(v, o + 2, c), S_EXPR_OPEN)
                 /\ Trim(Sub(v, o + 2, c)) # <<>>,
     next |-> c + 2]

PartAt(v, i, o) ==
    NextPart(v, i, o, IF o = 0 THEN 0 ELSE IndexFrom(v, S_EXPR_CLOSE, o + 2))

RECURSIVE ValueParts(_, _, _)
\* the value v from i on as text and expressions by turns: ok says that
\* every {{ has its }} and holds an expression, ex lists the expressions
\* trimmed, marked is the value with the n-th expression replaced by the
\* n-th marker and spaced the value with one blank inside the delimiters
ValueParts(v, i, acc) ==
    LET p == PartAt(v, i, IndexFrom(v, S_EXPR_OPEN, i))
    IN IF ~p.ok THEN [acc EXCEPT !.ok = FALSE]
       ELSE IF p.last
       THEN [acc EXCEPT !.marked = @ \o p.t, !.spaced = @ \o p.t]
       ELSE ValueParts(v, p.next,
                [ok |-> TRUE,
                 ex |-> Append(acc.ex, p.e),
                 marked |-> acc.marked \o p.t \o NestedMarker(Len(acc.ex)),
                 spaced |-> acc.spaced \o p.t \o S_EXPR_OPEN \o <<" ">> \o p.e
                               \o <<" ">> \o S_EXPR_CLOSE])

PartsOf(v) == ValueParts(v, 1, [ok |-> TRUE, ex |-> <<>>, marked |-> <<>>, spaced |-> <<>>])

\* the ledger entry of the value of a mixed directive
MixedEntry(led) == LedGet(led, K_MIXED_ATTR \o <<"0">>)

\* protection has recorded the parts p of the value, and the printer has put
\* the expressions back where the markers stood
Reassembled(p) ==
    /\ LedHas(replacements, K_MIXED_ATTR \o <<"0">>)
    /\ MixedEntry(replacements).twigExpressions = p.ex
    /\ MixedEntry(replacements).processedValue = p.marked
    /\ output = Sub(input, 1, Len(S_DIRECTIVE) + 1) \o p.spaced \o <<DQ>>
    /\ ~Includes(output, K_TWIG_EXPR)

\* C25: for a directive value that holds k template expressions, protection
\* records the k expressions trimmed and in order and leaves the i-th
\* marker for the i-th of them; the printed value is the original value
\* with one blank on either side of each expression inside its delimiters,
\* and holds no nested marker.
C25_MixedReassembly ==
    pc = "printed" =>
        (PartsOf(DirectiveValue(input)).ok /\ Len(PartsOf(DirectiveValue(input)).ex) > 0
            => Reassembled(PartsOf(DirectiveValue(input))))

\* the same for the values that hold no dollar sign
MixedReassemblyWithoutDollar ==
    pc = "printed" /\ ~Includes(input, <<"$">>) =>
        (PartsOf(DirectiveValue(input)).ok /\ Len(PartsOf(DirectiveValue(input)).ex) > 0
            => Reassembled(PartsOf(DirectiveValue(input))))

-----------------------------------------------------------------------------
(* C26: name placeholders and the names they stand for.                    *)

\* the entries of led that stand for the name of a directive
NameEntries(led) ==
    {n \in 1..Len(led) :
        \/ At(led[n].key, 1, K_ALPINE_PURE)
        \/ At(led[n].key, 1, K_ALPINE_MIXED)
        \/ At(led[n].key, 1, K_VUE_ALPINE)}

\* where the id key stands in a tag of s, as that id and not as the start
\* of a longer one
NamePlaces(s, key) ==
    {j \in 1..Len(s) :
        /\ At(s, j, key)
        /\ ~(j + Len(key) <= Len(s) /\ s[j + Len(key)] \in Digit)
        /\ InsideTagAt(s, j)}

\* name begins an attribute somewhere in s
BeginsAttribute(s, name) ==
    \E i \in 2..Len(s) : At(s, i, name) /\ s[i - 1] \in Space

\* the placeholder key at j of the sanitized text is a whole attribute
\* name, and the attribute printer resolves it to a name of the input
WholeName(key, j) ==
    /\ j > 1
    /\ processedText[j - 1] \in Space \cup {"<"}
    /\ BeginsAttribute(input, AttributeName(key, replacements))

\* C26: a name placeholder in a tag of the sanitized text stands for a
\* whole attribute name: white space or < stands before it, and the
\* attribute printer resolves it to a name that begins an attribute of the
\* input (v-on:click, v-bind:class or data-x-data are not split).
C26_WholeNames ==
    pc # "alpine" =>
        \A n \in NameEntries(replacements) :
            \A j \in NamePlaces(processedText, replacements[n].key) :
                WholeName(replacements[n].key, j)

-----------------------------------------------------------------------------
(* C27: ids inside the text of a text node.                                *)

\* the entries of led whose key is a vue-expression id that stands at j of
\* s, as that id and not as the start of a longer one
ExpressionIdsAt(s, j, led) ==
    {n \in 1..Len(led) :
        /\ At(led[n].key, 1, K_VUE_EXPR)
        /\ At(s, j, led[n].key)
        /\ ~(j + Len(led[n].key) <= Len(s) /\ s[j + Len(led[n].key)] \in Digit)}

RECURSIVE ExactRestore(_, _, _)
\* s from j on with every vue-expression id replaced by the payload of
\* that id
ExactRestore(s, j, led) ==
    IF j > Len(s) THEN <<>>
    ELSE IF ExpressionIdsAt(s, j, led) # {}
    THEN LET n == CHOOSE n \in ExpressionIdsAt(s, j, led) : TRUE
         IN led[n].val.text \o ExactRestore(s, j + Len(led[n].key), led)
    ELSE <<s[j]>> \o ExactRestore(s, j + 1, led)

\* the characters at which a text node ends or begins
LeafBorder == {"<", ">", "{", "}"}

\* the text nodes s[i..e-1] of s that hold a vue-expression id and other
\* text
ExpressionLeaves(s, led) ==
    {l \in (1..Len(s)) \X (1..(Len(s) + 1)) :
        /\ l[1] < l[2]
        /\ l[1] = 1 \/ s[l[1] - 1] \in {">", "}"}
        /\ l[2] = Len(s) + 1 \/ s[l[2]] \in {"<", "{"}
        /\ \A j \in l[1]..(l[2] - 1) : s[j] \notin LeafBorder
        /\ ~InsideTagAt(s, l[1])
        /\ \E j \in l[1]..(l[2] - 1) : ExpressionIdsAt(s, j, led) # {}
        /\ ~LedHas(led, Trim(Sub(s, l[1], l[2])))}

\* the text node l is printed with each id replaced by its own payload
LeafExact(s, l, led) ==
    /\ printTextStatement(Sub(s, l[1], l[2]), led)
           = Trim(ExactRestore(Sub(s, l[1], l[2]), 1, led))
    /\ Includes(output, Trim(ExactRestore(Sub(s, l[1], l[2]), 1, led)))

\* C27: a text node that holds a vue-expression id and other text is
\* printed with every id replaced by the payload of that same id, also
\* when an id of the ledger is the beginning of a longer id
\* (vue-expression-1 and vue-expression-10).
C27_ExactTextRestoration ==
    Done =>
        \A l \in ExpressionLeaves(processedText, combinedReplacements) :
            LeafExact(processedText, l, combinedReplacements)

\* some id of led begins a longer id of led
PrefixIds(led) ==
    \E m, n \in 1..Len(led) :
        /\ Len(led[m].key) < Len(led[n].key)
        /\ At(led[n].key, 1, led[m].key)

\* the same for the runs in which no id begins a longer id
ExactTextRestorationOfFewIds ==
    Done /\ ~PrefixIds(combinedReplacements) =>
        \A l \in ExpressionLeaves(processedText, combinedReplacements) :
            LeafExact(processedText, l, combinedReplacements)

-----------------------------------------------------------------------------
(* C28: character references in text nodes and in embedded content.        *)

\* the entries of led that stand for a character reference whose id is in t
EntityIdsIn(t, led) ==
    {n \in 1..Len(led) : At(led[n].key, 1, K_ENTITY) /\ Includes(t, led[n].key)}

\* the text nodes s[i..e-1] of s that hold the id of a character reference
EntityLeaves(s, led) ==
    {l \in (1..Len(s)) \X (1..(Len(s) + 1)) :
        /\ l[1] < l[2]
        /\ l[1] = 1 \/ s[l[1] - 1] \in {">", "}"}
        /\ l[2] = Len(s) + 1 \/ s[l[2]] \in {"<", "{"}
        /\ \A j \in l[1]..(l[2] - 1) : s[j] \notin LeafBorder
        /\ ~InsideTagAt(s, l[1])
        /\ EntityIdsIn(Sub(s, l[1], l[2]), led) # {}}

\* the printed text d holds the references of the ids of t, and no such id
ReferencesBack(t, d, led) ==
    \A n \in EntityIdsIn(t, led) :
        /\ ~Includes(d, led[n].key)
        /\ Includes(d, led[n].val.text)

\* the entries of led that hold the content of a script or style element
\* in which a character reference was protected
EmbeddedWithEntities(led) ==
    {n \in 1..Len(led) :
        /\ At(led[n].key, 1, K_SCRIPT) \/ At(led[n].key, 1, K_STYLE)
        /\ EntityIdsIn(led[n].val.text, led) # {}}

\* C28: the text printed for a text node holds no id of a character
\* reference and holds the reference itself instead, also when the node
\* holds another placeholder; the same for the content of a script or
\* style element in which a reference was protected.
C28_NoEntityLeak ==
    Done =>
        /\ \A l \in EntityLeaves(processedText, combinedReplacements) :
               ReferencesBack(Sub(processedText, l[1], l[2]),
                              printTextStatement(Sub(processedText, l[1], l[2]),
                                                 combinedReplacements),
                              combinedReplacements)
        /\ \A n \in EmbeddedWithEntities(combinedReplacements) :
               ReferencesBack(combinedReplacements[n].val.text,
                              printTextStatement(combinedReplacements[n].key,
                                                 combinedReplacements),
                              combinedReplacements)

\* the text node t holds no id but those of character references
OnlyEntityIds(t, led) ==
    \A n \in 1..Len(led) : Includes(t, led[n].key) => At(led[n].key, 1, K_ENTITY)

\* the same for the text nodes that hold no other placeholder
NoEntityLeakInPlainText ==
    Done =>
        \A l \in EntityLeaves(processedText, combinedReplacements) :
            OnlyEntityIds(Sub(processedText, l[1], l[2]), combinedReplacements) =>
                ReferencesBack(Sub(processedText, l[1], l[2]),
                               printTextStatement(Sub(processedText, l[1], l[2]),
                                                  combinedReplacements),
                               combinedReplacements)

-----------------------------------------------------------------------------
(* C29: directives whose value is the empty string.                        *)

\* the characters that end an attribute name
AfterName == Space \cup {"=", "<", ">", DQ, SQ}

\* a directive name stands at i of s: v-, x-, @ or : after white space
DirectiveStart(s, i) ==
    /\ i > 1
    /\ s[i - 1] \in Space
    /\ InsideTagAt(s, i)
    /\ \/ At(s, i, <<"v", "-">>) \/ At(s, i, <<"x", "-">>)
       \/ s[i] = "@" \/ s[i] = ":"

\* the directives name="" and name='' of s, each as the position of the
\* name and the position of the equals sign
EmptyDirectives(s) ==
    {d \in {<<i, SkipNotIn(s, i, AfterName)>> : i \in {j \in 1..Len(s) : DirectiveStart(s, j)}} :
        /\ d[2] + 2 <= Len(s)
        /\ s[d[2]] = "="
        /\ s[d[2] + 1] \in {DQ, SQ}
        /\ s[d[2] + 2] = s[d[2] + 1]}

\* the output holds the name with an empty quoted value
PrintedEmpty(name) ==
    \E q \in {DQ, SQ} : Includes(output, <<" ">> \o name \o <<"=", q, q>>)

\* C29: a directive whose value is the empty string (v-cloak="",
\* @click='') is printed as its name followed by an empty quoted value, and
\* the attribute printer raises no error for it.
C29_EmptyValuesRestore ==
    Done =>
        \A d \in EmptyDirectives(input) :
            /\ PrintedEmpty(Sub(input, d[1], d[2]))
            /\ ~Includes(output, Thrown)

\* the same for the directives that the first pass isolates with their
\* value: the names of alpineAttributes, in double quotes
EmptyAlpineValuesRestore ==
    Done =>
        \A d \in EmptyDirectives(input) :
            At(input, d[1], <<"x", "-">>) /\ input[d[2] + 1] = DQ
                => PrintedEmpty(Sub(input, d[1], d[2]))

-----------------------------------------------------------------------------
(* C30: the normalizer applied to its own result.                          *)

\* C30: normalizeJavaScriptWhitespace applied to an expression it has
\* already normalized returns that expression: n(n(e)) = n(e).
C30_NormalizeIdempotent ==
    pc = "renormalized" => output = normalizeJavaScriptWhitespace(input)

\* an expression with white space to take out, a string literal and an
\* escape has been normalized twice
C30_Witness ==
    /\ pc = "renormalized"
    /\ Includes(input, <<"a", " ", NL>>)
    /\ Includes(output, <<"a", " ">>)
    /\ ~Includes(output, <<NL>>)
    /\ Includes(input, <<BS>>)
    /\ \E q \in {DQ, SQ} : Includes(input, <<q>>)
    /\ output = normalizeJavaScriptWhitespace(output)

====
